---- MODULE Spec2Model ----
(***************************************************************************)
(* ChainForgeLedger chain-integrity core: StakingPool (core/staking.py),   *)
(* SlashingMechanism (consensus/slashing.py) and ForkHandler               *)
(* (core/fork.py), modelled as state machines over the objects' fields.    *)
(* Python dicts are functions whose DOMAIN is the key set; lists are       *)
(* sequences; time.time() is the variable now, advanced by Tick actions.   *)
(***************************************************************************)
EXTENDS Integers, Sequences, FiniteSets, TLC

VARIABLES
    now,               \* the wall clock read by time.time()
    total_stake,       \* StakingPool.total_stake
    validator_stakes,  \* StakingPool.validator_stakes   : validator -> int
    delegator_stakes,  \* StakingPool.delegator_stakes   : validator -> (delegator -> int)
    reward_pool,       \* StakingPool.reward_pool
    unstaking_queue,   \* StakingPool.unstaking_queue    : list of UnstakeRequest
    reward_history,    \* StakingPool.reward_history     : list of distributions
    staking_history,   \* StakingPool.staking_history    : list of stake/unstake events
    validator_history, \* SlashingMechanism.validator_history : validator -> BehaviorRecord
    slashing_events,   \* SlashingMechanism.slashing_events   : list of SlashEvent
    slash_cooldown,    \* SlashingMechanism.slash_cooldown
    offline_threshold, \* SlashingMechanism.offline_threshold
    slash_amounts,     \* SlashingMechanism.slash_amounts     : reason -> hundredths
    chain,             \* Blockchain.chain            : list of Block
    block_hash_map,    \* Blockchain._block_hash_map  : hash -> Block
    forks,             \* ForkHandler.forks           : list of ForkInfo
    fork_threshold,    \* ForkHandler.fork_threshold
    resolution_strategy, \* ForkHandler.resolution_strategy
    target_block_time,   \* DifficultyAdjuster.target_block_time
    adjustment_interval, \* DifficultyAdjuster.adjustment_interval
    min_difficulty,      \* DifficultyAdjuster.min_difficulty
    max_difficulty,      \* DifficultyAdjuster.max_difficulty
    difficulty_change_limit, \* DifficultyAdjuster.difficulty_change_limit (a float)
    current_consensus,    \* ConsensusManager.current_consensus    : a strategy object
    consensus_mechanisms, \* ConsensusManager.consensus_mechanisms : type tag -> object
    kwargs,               \* ConsensusManager.kwargs
    objects_created,      \* the number of strategy objects constructed so far
    threads,           \* the calls in progress: thread -> its position and locals
    ret                \* the last call: its name and result

slashingVars == <<validator_history, slashing_events, slash_cooldown,
                  offline_threshold, slash_amounts>>

forkVars == <<chain, block_hash_map, forks, fork_threshold, resolution_strategy>>

difficultyVars == <<target_block_time, adjustment_interval, min_difficulty,
                    max_difficulty, difficulty_change_limit>>

consensusVars == <<current_consensus, consensus_mechanisms, kwargs, objects_created>>

vars == <<now, total_stake, validator_stakes, delegator_stakes, reward_pool,
          unstaking_queue, reward_history, staking_history, validator_history,
          slashing_events, slash_cooldown, offline_threshold, slash_amounts, chain,
          block_hash_map, forks, fork_threshold, resolution_strategy,
          target_block_time, adjustment_interval, min_difficulty, max_difficulty,
          difficulty_change_limit, current_consensus, consensus_mechanisms, kwargs,
          objects_created, threads, ret>>

stakingVars == <<total_stake, validator_stakes, delegator_stakes, reward_pool,
                 unstaking_queue, reward_history, staking_history>>

-----------------------------------------------------------------------------
(* Python floats.  distribute_rewards computes in IEEE-754 binary64; the   *)
(* values are modelled exactly: a float is [s, m, e] with value            *)
(* s * m * 2^e, s the sign (1 or -1), m a natural number of exactly 53     *)
(* bits (or zero), every operation rounding to nearest, ties to even.      *)
(* Naturals wider than TLC's integers are little-endian sequences of       *)
(* limbs in base 2^15 without leading zero limbs.                          *)

LimbBits == 15
LimbBase == 32768
MantBits == 53

RECURSIVE Pow2(_)
Pow2(k) == IF k = 0 THEN 1 ELSE 2 * Pow2(k - 1)

RECURSIVE BigNorm(_)
BigNorm(a) ==
    IF a = <<>> THEN a
    ELSE IF a[Len(a)] = 0 THEN BigNorm(SubSeq(a, 1, Len(a) - 1)) ELSE a

RECURSIVE BigFromInt(_)
BigFromInt(n) ==
    IF n = 0 THEN <<>> ELSE <<n % LimbBase>> \o BigFromInt(n \div LimbBase)

RECURSIVE BigToInt(_)
BigToInt(a) ==
    IF a = <<>> THEN 0 ELSE a[1] + LimbBase * BigToInt(Tail(a))

Limb(a, i) == IF i <= Len(a) THEN a[i] ELSE 0

RECURSIVE BigCmpFrom(_, _, _)
BigCmpFrom(a, b, i) ==
    IF i = 0 THEN 0
    ELSE IF Limb(a, i) > Limb(b, i) THEN 1
    ELSE IF Limb(a, i) < Limb(b, i) THEN -1
    ELSE BigCmpFrom(a, b, i - 1)

(* -1, 0 or 1 as a < b, a = b, a > b                                       *)
BigCmp(a, b) == BigCmpFrom(a, b, IF Len(a) > Len(b) THEN Len(a) ELSE Len(b))

RECURSIVE BigAddFrom(_, _, _, _)
BigAddFrom(a, b, i, carry) ==
    IF i > Len(a) /\ i > Len(b)
    THEN (IF carry = 0 THEN <<>> ELSE <<carry>>)
    ELSE LET t == Limb(a, i) + Limb(b, i) + carry
         IN <<t % LimbBase>> \o BigAddFrom(a, b, i + 1, t \div LimbBase)

BigAdd(a, b) == BigAddFrom(a, b, 1, 0)

RECURSIVE BigSubFrom(_, _, _, _)
BigSubFrom(a, b, i, borrow) ==
    IF i > Len(a) THEN <<>>
    ELSE LET t == Limb(a, i) - Limb(b, i) - borrow
         IN IF t < 0 THEN <<t + LimbBase>> \o BigSubFrom(a, b, i + 1, 1)
            ELSE <<t>> \o BigSubFrom(a, b, i + 1, 0)

(* a - b for a >= b                                                        *)
BigSub(a, b) == BigNorm(BigSubFrom(a, b, 1, 0))

RECURSIVE BigMulSmallFrom(_, _, _, _)
BigMulSmallFrom(a, d, i, carry) ==
    IF i > Len(a)
    THEN (IF carry = 0 THEN <<>> ELSE <<carry>>)
    ELSE LET t == a[i] * d + carry
         IN <<t % LimbBase>> \o BigMulSmallFrom(a, d, i + 1, t \div LimbBase)

(* a * d for one limb d                                                    *)
BigMulSmall(a, d) == BigNorm(BigMulSmallFrom(a, d, 1, 0))

RECURSIVE BigShlLimbs(_, _)
BigShlLimbs(a, k) ==
    IF a = <<>> \/ k = 0 THEN a ELSE <<0>> \o BigShlLimbs(a, k - 1)

RECURSIVE BigMulFrom(_, _, _)
BigMulFrom(a, b, i) ==
    IF i > Len(b) THEN <<>>
    ELSE BigAdd(BigShlLimbs(BigMulSmall(a, b[i]), i - 1), BigMulFrom(a, b, i + 1))

BigMul(a, b) == BigNorm(BigMulFrom(a, b, 1))

RECURSIVE BigDivSmallFrom(_, _, _, _)
BigDivSmallFrom(a, d, i, rem) ==
    IF i = 0 THEN <<>>
    ELSE LET t == rem * LimbBase + a[i]
         IN BigDivSmallFrom(a, d, i - 1, t % d) \o <<t \div d>>

(* floor(a / d) for one limb d > 0                                         *)
BigDivSmall(a, d) == BigNorm(BigDivSmallFrom(a, d, Len(a), 0))

(* a * 2^k                                                                 *)
BigShl(a, k) == BigShlLimbs(BigMulSmall(a, Pow2(k % LimbBits)), k \div LimbBits)

(* floor(a / 2^k)                                                          *)
BigShr(a, k) ==
    LET drop == k \div LimbBits
    IN IF drop >= Len(a) THEN <<>>
       ELSE BigDivSmall(SubSeq(a, drop + 1, Len(a)), Pow2(k % LimbBits))

RECURSIVE IntBitLen(_)
IntBitLen(n) == IF n = 0 THEN 0 ELSE 1 + IntBitLen(n \div 2)

BigBitLen(a) ==
    IF a = <<>> THEN 0 ELSE LimbBits * (Len(a) - 1) + IntBitLen(a[Len(a)])

BigIsOdd(a) == a # <<>> /\ a[1] % 2 = 1

(* The quotient digit floor(r / b) for r < b * 2^15 and b with a full top  *)
(* limb: the estimate from the leading limbs is at most two too large.     *)
RECURSIVE BigDigitFrom(_, _, _)
BigDigitFrom(r, b, d) ==
    IF BigCmp(BigMulSmall(b, d), r) <= 0 THEN d ELSE BigDigitFrom(r, b, d - 1)

BigDigit(r, b) ==
    LET n == Len(b)
        est == (Limb(r, n + 1) * LimbBase + Limb(r, n)) \div b[n]
    IN BigDigitFrom(r, b, IF est > LimbBase - 1 THEN LimbBase - 1 ELSE est)

(* Long division in base 2^15 over the limbs i..1 of a, most significant   *)
(* first; qr is the quotient and remainder of the limbs above i.           *)
RECURSIVE BigDivModFrom(_, _, _, _)
BigDivModFrom(a, b, i, qr) ==
    IF i = 0 THEN qr
    ELSE LET r2 == BigNorm(<<a[i]>> \o qr.r)
             d == BigDigit(r2, b)
             next == [q |-> BigNorm(<<d>> \o qr.q), r |-> BigSub(r2, BigMulSmall(b, d))]
         IN IF next.q = next.q /\ next.r = next.r
            THEN BigDivModFrom(a, b, i - 1, next)
            ELSE qr

(* floor(a / b) and a mod b, for b > 0; both are first scaled so that the  *)
(* top limb of b is full.                                                  *)
BigDivMod(a, b) ==
    LET sc == LimbBits - IntBitLen(b[Len(b)])
        a1 == BigShl(a, sc)
        qr == BigDivModFrom(a1, BigShl(b, sc), Len(a1), [q |-> <<>>, r |-> <<>>])
    IN [q |-> qr.q, r |-> BigShr(qr.r, sc)]

FloatZero(s) == [s |-> s, m |-> <<>>, e |-> 0]

(* The element of the one-element set S; The({f(x) : x \in {e}}) is f(e)   *)
(* with e evaluated once however often f uses it.                          *)
The(S) == CHOOSE r \in S : TRUE

(* FloatRound for n of more than 53 bits: q is n without its low sh bits.  *)
FloatRoundDown(s, n, e, sticky, sh, q) ==
    LET c == BigCmp(BigSub(n, BigShl(q, sh)), BigShl(<<1>>, sh - 1))
        up == c > 0 \/ (c = 0 /\ (sticky \/ BigIsOdd(q)))
    IN The({IF BigBitLen(q1) > MantBits
            THEN [s |-> s, m |-> BigShr(q1, 1), e |-> e + sh + 1]
            ELSE [s |-> s, m |-> q1, e |-> e + sh] :
            q1 \in {IF up THEN BigAdd(q, <<1>>) ELSE q}})

(* The float nearest to s * n * 2^e (ties to even); sticky says that the   *)
(* exact value is a little above n * 2^e.                                  *)
FloatRound(s, n0, e, sticky) ==
    The({LET len == BigBitLen(n)
         IN IF len = 0 THEN FloatZero(s)
            ELSE IF len <= MantBits
            THEN [s |-> s, m |-> BigShl(n, MantBits - len), e |-> e - (MantBits - len)]
            ELSE The({FloatRoundDown(s, n, e, sticky, len - MantBits, q) :
                      q \in {BigShr(n, len - MantBits)}}) :
         n \in {n0}})

(* float(n) for a Python int n                                             *)
FloatFromInt(n) ==
    FloatRound(IF n < 0 THEN -1 ELSE 1, BigFromInt(IF n < 0 THEN -n ELSE n), 0, FALSE)

(* The float a / b of two Python numbers given as numerator/denominator;   *)
(* a one-limb denominator is divided by directly.                          *)
FloatOfRatio(s, num, den) ==
    LET gap == BigBitLen(den) - BigBitLen(num)
        sh == MantBits + 2 + (IF gap > 0 THEN gap ELSE 0)
    IN IF Len(den) = 1
       THEN The({The({FloatRound(s, q, -sh, BigMulSmall(q, den[1]) # n) :
                      q \in {BigDivSmall(n, den[1])}}) :
                 n \in {BigShl(num, sh)}})
       ELSE The({FloatRound(s, qr.q, -sh, qr.r # <<>>) :
                 qr \in {BigDivMod(BigShl(num, sh), den)}})

(* The number of zero limbs at the low end of a # <<>>.                    *)
RECURSIVE BigLowZeros(_, _)
BigLowZeros(a, i) == IF a[i] # 0 THEN i - 1 ELSE BigLowZeros(a, i + 1)

(* The same value m * 2^e with the low zero limbs of m moved into e.       *)
FloatTrim(x) ==
    LET k == BigLowZeros(x.m, 1)
    IN [m |-> SubSeq(x.m, k + 1, Len(x.m)), e |-> x.e + LimbBits * k]

(* x * y                                                                   *)
FloatMul(x, y) ==
    IF x.m = <<>> \/ y.m = <<>> THEN FloatZero(x.s * y.s)
    ELSE The({FloatRound(x.s * y.s, BigMul(a.m, b.m), a.e + b.e, FALSE) :
              a \in {FloatTrim(x)}, b \in {FloatTrim(y)}})

(* x / y for y # 0                                                         *)
FloatDiv(x, y) ==
    IF x.m = <<>> THEN FloatZero(x.s * y.s)
    ELSE The({[FloatOfRatio(x.s * y.s, a.m, b.m) EXCEPT !.e = @ + a.e - b.e] :
              a \in {FloatTrim(x)}, b \in {FloatTrim(y)}})

FloatNeg(x) == [x EXCEPT !.s = -@]

(* x + y                                                                   *)
FloatAdd(x, y) ==
    IF x.m = <<>> /\ y.m = <<>> THEN FloatZero(IF x.s = -1 /\ y.s = -1 THEN -1 ELSE 1)
    ELSE IF x.m = <<>> THEN y
    ELSE IF y.m = <<>> THEN x
    ELSE LET e == IF x.e < y.e THEN x.e ELSE y.e
         IN The({IF x.s = y.s THEN FloatRound(x.s, BigAdd(nx, ny), e, FALSE)
                 ELSE The({IF c = 0 THEN FloatZero(1)
                           ELSE IF c > 0 THEN FloatRound(x.s, BigSub(nx, ny), e, FALSE)
                           ELSE FloatRound(y.s, BigSub(ny, nx), e, FALSE) :
                           c \in {BigCmp(nx, ny)}}) :
                 nx \in {BigShl(x.m, x.e - e)}, ny \in {BigShl(y.m, y.e - e)}})

(* x - y                                                                   *)
FloatSub(x, y) == FloatAdd(x, FloatNeg(y))

(* int(x): truncation toward zero                                          *)
FloatToInt(x) ==
    IF x.m = <<>> THEN 0
    ELSE x.s * BigToInt(IF x.e >= 0 THEN BigShl(x.m, x.e) ELSE BigShr(x.m, -x.e))

(* The order of x and y: -1 when x < y, 0 when x = y, 1 when x > y.        *)
FloatCmp(x, y) ==
    IF x.m = <<>> /\ y.m = <<>> THEN 0
    ELSE IF x.m = <<>> THEN -y.s
    ELSE IF y.m = <<>> THEN x.s
    ELSE IF x.s # y.s THEN x.s
    ELSE LET e == IF x.e < y.e THEN x.e ELSE y.e
         IN x.s * BigCmp(BigShl(x.m, x.e - e), BigShl(y.m, y.e - e))

(* Python's min(x, y) and max(x, y): the first argument unless the second  *)
(* is strictly smaller (larger).                                           *)
FloatMin(x, y) == IF FloatCmp(y, x) < 0 THEN y ELSE x
FloatMax(x, y) == IF FloatCmp(y, x) > 0 THEN y ELSE x

(* round(x): the nearest integer, a tie going to the even one.             *)
FloatRoundToInt(x) ==
    IF x.m = <<>> THEN 0
    ELSE IF x.e >= 0 THEN x.s * BigToInt(BigShl(x.m, x.e))
    ELSE The({LET c == BigCmp(BigSub(x.m, BigShl(q, -x.e)), BigShl(<<1>>, -x.e - 1))
                  up == c > 0 \/ (c = 0 /\ BigIsOdd(q))
              IN x.s * (BigToInt(q) + (IF up THEN 1 ELSE 0)) :
              q \in {BigShr(x.m, -x.e)}})

(* A decimal literal num/den of the source, e.g. 0.7 is FloatLiteral(7, 10) *)
FloatLiteral(num, den) == FloatOfRatio(1, BigFromInt(num), BigFromInt(den))

-----------------------------------------------------------------------------
(* Bounds of the model.                                                    *)

MaxQueue == 2
MaxTicks == 2
MaxTotalStake == 160
MaxRewardPool == 50
MaxHistory == 1
MaxBehaviors == 2
MaxEvents == 2
MaxSlashTicks == 2
MaxChainLen == 4
MaxSuffix == 2
MaxForks == 2

(* Program constants (constructor defaults of StakingPool).                *)

unstaking_lockup == 604800
min_stake == 100

(* StakingPool.validator_commission = 0.1 and StakingPool.reward_distribution *)
(* (transaction_fee_share 0.5, validator_share 0.7, delegator_share 0.3),  *)
(* each the binary64 value of its literal.                                 *)
validator_commission == [s |-> 1, m |-> <<6554, 13107, 26214, 204>>, e |-> -56]
transaction_fee_share == [s |-> 1, m |-> <<0, 0, 0, 128>>, e |-> -53]
validator_share == [s |-> 1, m |-> <<26214, 19660, 6553, 179>>, e |-> -53]
delegator_share == [s |-> 1, m |-> <<13107, 26214, 19660, 153>>, e |-> -54]

(* The values above are what the literals of the source denote.            *)
FloatLiteralsExact ==
    /\ validator_commission = FloatLiteral(1, 10)
    /\ transaction_fee_share = FloatLiteral(5, 10)
    /\ validator_share = FloatLiteral(7, 10)
    /\ delegator_share = FloatLiteral(3, 10)

Validators == {"v1", "v2"}
Stakers == {"v1", "v2", "d1"}
(* The (validator, staker) pairs the calls are made with: v1 stakes for     *)
(* itself and has the delegator d1, v2 stakes for itself.                   *)
StakePairs == {<<"v1", "v1">>, <<"v1", "d1">>, <<"v2", "v2">>}
StakeAmounts == {0, 60, 100}
StakingTick == unstaking_lockup \div 2
(* add_rewards is called with these (block_reward, transaction_fees).      *)
RewardInputs == {<<50, 0>>, <<0, 101>>}
(* The behaviors, reasons and amounts (in hundredths) the slashing calls   *)
(* are made with; "bogus" is no slash reason, <<>> the omitted amount.     *)
Behaviors == {"offline", "invalid_block", "valid_block", "online"}
SlashReasonInputs == {"double_signing", "bogus"}
SlashAmountInputs == {<<>>, <<150>>}
(* The validators whose behavior is recorded.                              *)
Observed == {"v1"}
(* The order in which the dicts are iterated.                              *)
AddrOrder == <<"v1", "v2", "d1">>

-----------------------------------------------------------------------------
(* Helpers over dicts.                                                     *)

RECURSIVE SumOver(_, _)
SumOver(f, S) ==
    IF S = {} THEN 0
    ELSE LET x == CHOOSE y \in S : TRUE IN f[x] + SumOver(f, S \ {x})

SumValues(f) == SumOver(f, DOMAIN f)

EmptyDict == [x \in {} |-> 0]

DictSet(f, k, v) == [x \in (DOMAIN f) \cup {k} |-> IF x = k THEN v ELSE f[x]]

DictDel(f, k) == [x \in (DOMAIN f) \ {k} |-> f[x]]

-----------------------------------------------------------------------------
(* StakingPool.__init__                                                    *)

StakingInit ==
    /\ total_stake = 0
    /\ validator_stakes = EmptyDict
    /\ delegator_stakes = EmptyDict
    /\ reward_pool = 0
    /\ unstaking_queue = <<>>
    /\ reward_history = <<>>
    /\ staking_history = <<>>

(* StakingPool.get_validator_stake                                         *)
get_validator_stake(v) ==
    IF v \notin DOMAIN validator_stakes THEN 0
    ELSE validator_stakes[v] + SumValues(delegator_stakes[v])

(* StakingPool.get_staker_stake                                            *)
get_staker_stake(v, s) ==
    IF v = s
    THEN (IF v \in DOMAIN validator_stakes THEN validator_stakes[v] ELSE 0)
    ELSE IF v \in DOMAIN delegator_stakes /\ s \in DOMAIN delegator_stakes[v]
         THEN delegator_stakes[v][s] ELSE 0

(* An entry of staking_history (lines 99-105 and 148-154).                 *)
StakingEvent(v, s, amount, type) ==
    [validator_address |-> v, staker_address |-> s, amount |-> amount,
     timestamp |-> now, type |-> type]

(* StakingPool.stake without the validator threshold of lines 77-79: a     *)
(* self-stake below min_stake would create the validator entry.            *)
StakeRejected_AmountOnly(v, s, amount) ==
    amount < 1

(* StakingPool.stake: the two early returns.                               *)
StakeRejected(v, s, amount) ==
    \/ amount < 1
    \/ (v = s /\ amount < min_stake)

(* StakingPool.stake                                                       *)
Stake(v, s, amount) ==
    /\ Len(reward_history) < MaxHistory
    /\ total_stake + amount <= MaxTotalStake
    /\ IF StakeRejected(v, s, amount)
       THEN /\ UNCHANGED stakingVars
            /\ ret' = [op |-> "stake", validator |-> v, staker |-> s, amount |-> amount,
                       result |-> FALSE]
       ELSE LET vs0 == IF v \in DOMAIN validator_stakes
                       THEN validator_stakes ELSE DictSet(validator_stakes, v, 0)
                ds0 == IF v \in DOMAIN validator_stakes
                       THEN delegator_stakes ELSE DictSet(delegator_stakes, v, EmptyDict)
                old == IF s \in DOMAIN ds0[v] THEN ds0[v][s] ELSE 0
            IN /\ IF v = s
                  THEN /\ validator_stakes' = DictSet(vs0, v, vs0[v] + amount)
                       /\ delegator_stakes' = ds0
                  ELSE /\ validator_stakes' = vs0
                       /\ delegator_stakes' = DictSet(ds0, v, DictSet(ds0[v], s, old + amount))
               /\ total_stake' = total_stake + amount
               /\ staking_history' = Append(staking_history,
                                            StakingEvent(v, s, amount, "stake"))
               /\ UNCHANGED <<reward_pool, unstaking_queue, reward_history>>
               /\ ret' = [op |-> "stake", validator |-> v, staker |-> s, amount |-> amount,
                       result |-> TRUE]
    /\ UNCHANGED <<difficultyVars, threads, consensusVars, now, slashingVars, forkVars>>

(* StakingPool.unstake: the available-stake check of lines 122-135.        *)
UnstakeRejected(v, s, amount) ==
    \/ amount < 1
    \/ v \notin DOMAIN validator_stakes
    \/ (v = s /\ validator_stakes[v] < amount)
    \/ (v # s /\ (s \notin DOMAIN delegator_stakes[v] \/ delegator_stakes[v][s] < amount))

(* An UnstakeRequest as unstake builds it.                                 *)
UnstakeRequest(v, s, amount, t) ==
    [validator_address |-> v, staker_address |-> s, amount |-> amount,
     request_time |-> t, release_time |-> t + unstaking_lockup, completed |-> FALSE]

(* StakingPool.unstake                                                     *)
Unstake(v, s, amount) ==
    /\ Len(reward_history) < MaxHistory
    /\ Len(unstaking_queue) < MaxQueue
    /\ IF UnstakeRejected(v, s, amount)
       THEN /\ UNCHANGED <<unstaking_queue, staking_history>>
            /\ ret' = [op |-> "unstake", validator |-> v, staker |-> s, amount |-> amount,
                       result |-> FALSE]
       ELSE /\ unstaking_queue' = Append(unstaking_queue, UnstakeRequest(v, s, amount, now))
            /\ staking_history' = Append(staking_history,
                                         StakingEvent(v, s, -amount, "unstake"))
            /\ ret' = [op |-> "unstake", validator |-> v, staker |-> s, amount |-> amount,
                       result |-> TRUE]
    /\ UNCHANGED <<difficultyVars, threads, consensusVars, now, total_stake, validator_stakes, delegator_stakes,
                   reward_pool, reward_history, slashingVars, forkVars>>

(* The guard of process_unstaking's loop body (line 169).                  *)
Matured(request, current_time) ==
    ~request.completed /\ current_time >= request.release_time

(* An iteration that releases the stake and leaves total_stake as it was.  *)
ProcessOne_KeepsTotal(st, i, current_time) ==
    LET request == st.queue[i]
        v == request.validator_address
        s == request.staker_address
    IN IF ~Matured(request, current_time) THEN st
       ELSE IF v # s /\ s \notin DOMAIN st.ds[v]
       THEN [st EXCEPT !.raised = TRUE]
       ELSE LET vs1 == IF v = s THEN [st.vs EXCEPT ![v] = @ - request.amount] ELSE st.vs
                dsub == IF v = s THEN st.ds[v]
                        ELSE [st.ds[v] EXCEPT ![s] = @ - request.amount]
                dsub1 == IF v # s /\ dsub[s] = 0 THEN DictDel(dsub, s) ELSE dsub
            IN [st EXCEPT !.vs = vs1,
                          !.ds = [st.ds EXCEPT ![v] = dsub1],
                          !.queue = [@ EXCEPT ![i].completed = TRUE],
                          !.processed = Append(@, i)]

(* One iteration of process_unstaking's loop on the pool state st; the     *)
(* subscript of a delegator that was deleted raises KeyError (line 174).   *)
ProcessOne(st, i, current_time) ==
    LET request == st.queue[i]
        v == request.validator_address
        s == request.staker_address
    IN IF ~Matured(request, current_time) THEN st
       ELSE IF v # s /\ s \notin DOMAIN st.ds[v]
       THEN [st EXCEPT !.raised = TRUE]
       ELSE LET vs1 == IF v = s THEN [st.vs EXCEPT ![v] = @ - request.amount] ELSE st.vs
                dsub == IF v = s THEN st.ds[v]
                        ELSE [st.ds[v] EXCEPT ![s] = @ - request.amount]
                dsub1 == IF v # s /\ dsub[s] = 0 THEN DictDel(dsub, s) ELSE dsub
            IN [st EXCEPT !.vs = vs1,
                          !.ds = [st.ds EXCEPT ![v] = dsub1],
                          !.total = @ - request.amount,
                          !.queue = [@ EXCEPT ![i].completed = TRUE],
                          !.processed = Append(@, i)]

(* The loop of process_unstaking from queue position i; it stops at the    *)
(* first raise, keeping what the earlier iterations wrote.                 *)
RECURSIVE ProcessFrom(_, _, _)
ProcessFrom(st, i, current_time) ==
    IF i > Len(st.queue) \/ st.raised THEN st
    ELSE ProcessFrom(ProcessOne(st, i, current_time), i + 1, current_time)

(* StakingPool.process_unstaking                                           *)
ProcessUnstaking ==
    LET st0 == [vs |-> validator_stakes, ds |-> delegator_stakes, total |-> total_stake,
                queue |-> unstaking_queue, processed |-> <<>>, raised |-> FALSE]
        st == ProcessFrom(st0, 1, now)
    IN /\ Len(reward_history) < MaxHistory
       /\ validator_stakes' = st.vs
       /\ delegator_stakes' = st.ds
       /\ total_stake' = st.total
       /\ unstaking_queue' = st.queue
       /\ ret' = [op |-> "process_unstaking", processed |-> st.processed,
                  raised |-> st.raised]
       /\ UNCHANGED <<difficultyVars, threads, consensusVars, now, reward_pool, reward_history, staking_history, slashingVars,
                      forkVars>>

(* StakingPool.add_rewards                                                 *)
AddRewards(block_reward, transaction_fees) ==
    LET total_rewards == block_reward +
            FloatToInt(FloatMul(FloatFromInt(transaction_fees), transaction_fee_share))
    IN /\ Len(reward_history) < MaxHistory
       /\ reward_pool < MaxRewardPool
       /\ reward_pool + total_rewards <= MaxRewardPool
       /\ reward_pool' = reward_pool + total_rewards
       /\ ret' = [op |-> "add_rewards", result |-> total_rewards]
       /\ UNCHANGED <<difficultyVars, threads, consensusVars, now, total_stake, validator_stakes, delegator_stakes,
                      unstaking_queue, reward_history, staking_history, slashingVars,
                      forkVars>>

(* The keys of a dict in iteration order.                                  *)
Keys(f) == SelectSeq(AddrOrder, LAMBDA k : k \in DOMAIN f)

(* Lines 230-235: the net reward of a validator out of its pool's rewards. *)
ValidatorNetReward(validator_pool_rewards) ==
    The({LET commission == FloatMul(validator_rewards, validator_commission)
         IN FloatSub(validator_rewards, commission) :
         validator_rewards \in {FloatMul(validator_pool_rewards, validator_share)}})

DelegatorReward_FullShare(delegator_rewards, delegator_stake, validator_total_stake) ==
    delegator_rewards

(* Lines 252-253: the reward of a delegator holding delegator_stake of     *)
(* the validator's validator_total_stake # 0.                              *)
DelegatorReward(delegator_rewards, delegator_stake, validator_total_stake) ==
    LET share == FloatDiv(FloatFromInt(delegator_stake), FloatFromInt(validator_total_stake))
    IN FloatMul(delegator_rewards, share)

Distribution(v, recipient, amount, type) ==
    [validator_address |-> v, recipient_address |-> recipient,
     amount |-> amount, type |-> type]

(* The inner loop of distribute_rewards over the delegators ks of v.       *)
RECURSIVE DelegatorDistributions(_, _, _, _)
DelegatorDistributions(v, ks, validator_total_stake, delegator_rewards) ==
    IF ks = <<>> THEN <<>>
    ELSE <<Distribution(v, Head(ks),
               FloatToInt(DelegatorReward(delegator_rewards, delegator_stakes[v][Head(ks)],
                                          validator_total_stake)),
               "delegator_reward")>>
         \o DelegatorDistributions(v, Tail(ks), validator_total_stake, delegator_rewards)

(* One iteration of the outer loop of distribute_rewards.                  *)
ValidatorDistributions(v, reward_per_coin) ==
    LET validator_total_stake == validator_stakes[v] + SumValues(delegator_stakes[v])
    IN The({<<Distribution(v, v, FloatToInt(ValidatorNetReward(validator_pool_rewards)),
                           "validator_reward")>>
            \o The({DelegatorDistributions(v, Keys(delegator_stakes[v]),
                                           validator_total_stake, delegator_rewards) :
                    delegator_rewards \in {FloatMul(validator_pool_rewards, delegator_share)}}) :
            validator_pool_rewards \in
                {FloatMul(FloatFromInt(validator_total_stake), reward_per_coin)}})

RECURSIVE AllDistributions(_, _)
AllDistributions(vks, reward_per_coin) ==
    IF vks = <<>> THEN <<>>
    ELSE ValidatorDistributions(Head(vks), reward_per_coin)
         \o AllDistributions(Tail(vks), reward_per_coin)

(* delegator_stake / validator_total_stake divides by zero (line 252).     *)
DistributeRaises ==
    \E v \in DOMAIN validator_stakes :
        /\ DOMAIN delegator_stakes[v] # {}
        /\ validator_stakes[v] + SumValues(delegator_stakes[v]) = 0

(* Line 212: the pass does nothing.                                        *)
DistributeSkips == reward_pool = 0 \/ total_stake = 0

(* StakingPool.distribute_rewards                                          *)
DistributeRewards ==
    /\ IF DistributeSkips
       THEN /\ UNCHANGED <<reward_pool, reward_history>>
            /\ ret' = [op |-> "distribute_rewards", raised |-> FALSE,
                       pool |-> reward_pool, result |-> <<>>]
       ELSE IF DistributeRaises
       THEN /\ UNCHANGED <<reward_pool, reward_history>>
            /\ ret' = [op |-> "distribute_rewards", raised |-> TRUE,
                       pool |-> reward_pool, result |-> <<>>]
       ELSE \E reward_per_coin \in {FloatDiv(FloatFromInt(reward_pool), FloatFromInt(total_stake))} :
            \E distributions \in {AllDistributions(Keys(validator_stakes), reward_per_coin)} :
               /\ reward_pool' = 0
               /\ reward_history' = reward_history \o distributions
               /\ ret' = [op |-> "distribute_rewards", raised |-> FALSE,
                          pool |-> reward_pool, result |-> distributions]
    /\ UNCHANGED <<difficultyVars, threads, consensusVars, now, total_stake, validator_stakes, delegator_stakes, unstaking_queue,
                   staking_history, slashingVars, forkVars>>

-----------------------------------------------------------------------------
(* SlashingMechanism (consensus/slashing.py).  Slash amounts are fractions *)
(* of the stake; they are only compared and clamped, never computed with,  *)
(* and are kept in hundredths.                                             *)

SLASH_REASONS == {"double_signing", "validator_offline", "invalid_block",
                  "proposal_manipulation", "vote_manipulation", "protocol_violation"}

DEFAULT_SLASH_AMOUNTS ==
    [r \in SLASH_REASONS |->
        CASE r = "double_signing" -> 50
          [] r = "validator_offline" -> 5
          [] r = "invalid_block" -> 25
          [] r = "proposal_manipulation" -> 30
          [] r = "vote_manipulation" -> 20
          [] r = "protocol_violation" -> 40]

DefaultOfflineThreshold == 3
DefaultSlashCooldown == 86400

(* time.time() between calls advances by SlashingTick.                     *)
SlashingTick == DefaultSlashCooldown \div 2
(* The reading of time.time() when the mechanism is constructed.           *)
ClockStart == 2 * DefaultSlashCooldown

(* SlashingMechanism.__init__                                              *)
SlashingInit ==
    /\ validator_history = EmptyDict
    /\ slashing_events = <<>>
    /\ slash_amounts = DEFAULT_SLASH_AMOUNTS
    /\ offline_threshold = DefaultOfflineThreshold
    /\ slash_cooldown = DefaultSlashCooldown

(* The record both record_validator_behavior and slash_validator create    *)
(* for a validator they have not seen.                                     *)
NewHistory ==
    [offline_count |-> 0, invalid_blocks |-> 0, valid_blocks |-> 0,
     last_slash_time |-> 0, behavior_history |-> <<>>]

UpdateCounters_NoReset(history, behavior) ==
    IF behavior = "offline" THEN [history EXCEPT !.offline_count = @ + 1]
    ELSE IF behavior = "invalid_block" THEN [history EXCEPT !.invalid_blocks = @ + 1]
    ELSE IF behavior = "valid_block" THEN [history EXCEPT !.valid_blocks = @ + 1]
    ELSE history

(* The counters after a behavior (lines 78-84).                            *)
UpdateCounters(history, behavior) ==
    IF behavior = "offline" THEN [history EXCEPT !.offline_count = @ + 1]
    ELSE IF behavior = "invalid_block" THEN [history EXCEPT !.invalid_blocks = @ + 1]
    ELSE IF behavior = "valid_block"
    THEN [history EXCEPT !.valid_blocks = @ + 1, !.offline_count = 0]
    ELSE history

(* The validator's log and valid_blocks counter are below the bound.       *)
CanRecord(v, bound) ==
    v \in DOMAIN validator_history =>
        /\ Len(validator_history[v].behavior_history) < bound
        /\ validator_history[v].valid_blocks < bound

(* SlashingMechanism.record_validator_behavior; the log keeps the          *)
(* behaviors in order, without their timestamp and block height.           *)
RecordValidatorBehavior(v, behavior) ==
    LET h0 == IF v \in DOMAIN validator_history THEN validator_history[v] ELSE NewHistory
        h1 == [h0 EXCEPT !.behavior_history = Append(@, behavior)]
    IN /\ validator_history' = DictSet(validator_history, v, UpdateCounters(h1, behavior))
       /\ ret' = [op |-> "record_validator_behavior"]
       /\ UNCHANGED <<difficultyVars, threads, consensusVars, now, stakingVars, forkVars, slashing_events, slash_cooldown,
                      offline_threshold, slash_amounts>>

(* The cooldown test shared by check_slashing_conditions, slash_validator  *)
(* and is_validator_eligible (lines 103, 141, 334).                        *)
InCooldown_Inverted(last_slash_time, current_time) ==
    current_time - last_slash_time > slash_cooldown

InCooldown(last_slash_time, current_time) ==
    current_time - last_slash_time < slash_cooldown

check_slashing_conditions_Ungated(v, current_time) ==
    IF v \notin DOMAIN validator_history THEN {}
    ELSE (IF validator_history[v].offline_count >= offline_threshold
          THEN {"validator_offline"} ELSE {})
         \cup (IF validator_history[v].invalid_blocks > 0 THEN {"invalid_block"} ELSE {})

(* SlashingMechanism.check_slashing_conditions at clock current_time       *)
check_slashing_conditions(v, current_time) ==
    IF v \notin DOMAIN validator_history THEN {}
    ELSE IF InCooldown(validator_history[v].last_slash_time, current_time) THEN {}
    ELSE (IF validator_history[v].offline_count >= offline_threshold
          THEN {"validator_offline"} ELSE {})
         \cup (IF validator_history[v].invalid_blocks > 0 THEN {"invalid_block"} ELSE {})

(* SlashingMechanism.is_validator_eligible at clock current_time           *)
is_validator_eligible(v, current_time) ==
    IF v \notin DOMAIN validator_history THEN TRUE
    ELSE ~InCooldown(validator_history[v].last_slash_time, current_time)

(* slash_validator raises: "ValueError" for an unknown reason (line 136),  *)
(* "Exception" inside the cooldown (line 142), "none" otherwise.           *)
SlashRaises(v, reason, current_time) ==
    IF reason \notin SLASH_REASONS THEN "ValueError"
    ELSE IF v \in DOMAIN validator_history
            /\ InCooldown(validator_history[v].last_slash_time, current_time)
    THEN "Exception"
    ELSE "none"

(* Lines 145-149: the default amount of the reason, capped to [0, 1].      *)
SlashAmount(reason, amount) ==
    LET a == IF amount = <<>> THEN slash_amounts[reason] ELSE amount[1]
        lo == IF 100 < a THEN 100 ELSE a
    IN IF 0 > lo THEN 0 ELSE lo

(* A slash that also resets the validator's counters.                      *)
SlashApply_ResetsCounters(v, reason, amount, timestamp) ==
    LET event == [validator_address |-> v, reason |-> reason,
                  amount |-> SlashAmount(reason, amount), timestamp |-> timestamp]
    IN /\ slashing_events' = Append(slashing_events, event)
       /\ validator_history' = DictSet(validator_history, v,
                                       [NewHistory EXCEPT !.last_slash_time = timestamp])

(* Lines 152-172: the event is appended and last_slash_time set to its     *)
(* timestamp.                                                              *)
SlashApply(v, reason, amount, timestamp) ==
    LET event == [validator_address |-> v, reason |-> reason,
                  amount |-> SlashAmount(reason, amount), timestamp |-> timestamp]
        h0 == IF v \in DOMAIN validator_history THEN validator_history[v] ELSE NewHistory
    IN /\ slashing_events' = Append(slashing_events, event)
       /\ validator_history' = DictSet(validator_history, v,
                                       [h0 EXCEPT !.last_slash_time = timestamp])

SlashValidator_ChecksLate(v, reason, amount, drift) ==
    LET raised == SlashRaises(v, reason, now)
    IN /\ raised # "ValueError" => Len(slashing_events) < MaxEvents
       /\ IF raised = "ValueError"
          THEN /\ drift = 0
               /\ UNCHANGED <<now, validator_history, slashing_events>>
          ELSE /\ now' = now + drift
               /\ SlashApply(v, reason, amount, now + drift)
       /\ ret' = [op |-> "slash_validator", validator |-> v, reason |-> reason,
                  raised |-> raised]
       /\ UNCHANGED <<difficultyVars, threads, consensusVars, stakingVars, forkVars, slash_cooldown, offline_threshold,
                      slash_amounts>>

(* SlashingMechanism.slash_validator.  The cooldown is tested against one  *)
(* reading of time.time() and the event stamped with a later one: the      *)
(* clock may have advanced by drift in between.                            *)
SlashValidator(v, reason, amount, drift) ==
    LET raised == SlashRaises(v, reason, now)
    IN /\ raised = "none" => Len(slashing_events) < MaxEvents
       /\ IF raised # "none"
          THEN /\ drift = 0
               /\ UNCHANGED <<now, validator_history, slashing_events>>
          ELSE /\ now' = now + drift
               /\ SlashApply(v, reason, amount, now + drift)
       /\ ret' = [op |-> "slash_validator", validator |-> v, reason |-> reason,
                  raised |-> raised]
       /\ UNCHANGED <<difficultyVars, threads, consensusVars, stakingVars, forkVars, slash_cooldown, offline_threshold,
                      slash_amounts>>

(* SlashingMechanism.clear_behavior_history                                *)
ClearBehaviorHistory(v) ==
    /\ validator_history' =
          IF v \in DOMAIN validator_history
          THEN [validator_history EXCEPT ![v].behavior_history = <<>>,
                                         ![v].offline_count = 0,
                                         ![v].invalid_blocks = 0]
          ELSE validator_history
    /\ ret' = [op |-> "clear_behavior_history"]
    /\ UNCHANGED <<difficultyVars, threads, consensusVars, now, stakingVars, forkVars, slashing_events, slash_cooldown,
                   offline_threshold, slash_amounts>>

(* A call of check_slashing_conditions                                     *)
CheckSlashingConditions(v) ==
    /\ ret' = [op |-> "check_slashing_conditions", validator |-> v,
               result |-> check_slashing_conditions(v, now)]
    /\ UNCHANGED <<difficultyVars, threads, consensusVars, now, stakingVars, slashingVars, forkVars>>

(* A call of is_validator_eligible                                         *)
IsValidatorEligible(v) ==
    /\ ret' = [op |-> "is_validator_eligible", validator |-> v,
               result |-> is_validator_eligible(v, now)]
    /\ UNCHANGED <<difficultyVars, threads, consensusVars, now, stakingVars, slashingVars, forkVars>>

(* time.time() advancing between calls.                                    *)
SlashingTickAction ==
    /\ now < ClockStart + MaxSlashTicks * SlashingTick
    /\ now' = now + SlashingTick
    /\ ret' = [op |-> "tick"]
    /\ UNCHANGED <<difficultyVars, threads, consensusVars, stakingVars, slashingVars, forkVars>>

-----------------------------------------------------------------------------
(* DifficultyAdjuster (core/difficulty.py).  The blocks it is given are    *)
(* [index, timestamp, difficulty]; timestamps are whole seconds.           *)

DefaultTargetBlockTime == 60
DefaultAdjustmentInterval == 10
DefaultMinDifficulty == 1
DefaultMaxDifficulty == 20
DefaultChangeLimit == FloatLiteral(2, 10)

(* DifficultyAdjuster.__init__                                             *)
DifficultyInit(target, interval, min_diff, max_diff, limit) ==
    /\ target_block_time = target
    /\ adjustment_interval = interval
    /\ min_difficulty = min_diff
    /\ max_difficulty = max_diff
    /\ difficulty_change_limit = limit

(* A slice that keeps every block it is given.                             *)
AdjustmentBlocks_Whole(blocks) == blocks

(* Line 57: blocks[-adjustment_interval:]                                  *)
AdjustmentBlocks(blocks) ==
    SubSeq(blocks, Len(blocks) - adjustment_interval + 1, Len(blocks))

(* Line 60                                                                 *)
ActualTime(blocks) ==
    LET adjustment_blocks == AdjustmentBlocks(blocks)
    IN adjustment_blocks[Len(adjustment_blocks)].timestamp - adjustment_blocks[1].timestamp

(* Line 63                                                                 *)
ExpectedTime == target_block_time * adjustment_interval

(* Lines 66 and 69: a division by zero raises ZeroDivisionError.           *)
DifficultyRaises(blocks) ==
    /\ Len(blocks) >= adjustment_interval
    /\ ExpectedTime = 0 \/ ActualTime(blocks) = 0

(* Lines 72-77: the proposal limited to the change limit around the        *)
(* current difficulty, then clamped to [min_difficulty, max_difficulty].   *)
DifficultyClamp(new_difficulty, current_difficulty) ==
    LET current == FloatFromInt(current_difficulty)
        one == FloatFromInt(1)
        max_increase == FloatMul(current, FloatAdd(one, difficulty_change_limit))
        max_decrease == FloatMul(current, FloatSub(one, difficulty_change_limit))
        limited == FloatMax(FloatMin(new_difficulty, max_increase), max_decrease)
    IN FloatMax(FloatMin(limited, FloatFromInt(max_difficulty)),
                FloatFromInt(min_difficulty))

(* Line 66: actual_time / expected_time for expected_time # 0              *)
TimeRatio(blocks) == FloatDiv(FloatFromInt(ActualTime(blocks)), FloatFromInt(ExpectedTime))

DifficultyRound_Truncated(new_difficulty) == FloatToInt(new_difficulty)

(* Line 80: int(round(new_difficulty))                                     *)
DifficultyRound(new_difficulty) == FloatRoundToInt(new_difficulty)

(* DifficultyAdjuster.calculate_new_difficulty, when it does not raise.    *)
calculate_new_difficulty(blocks, current_difficulty) ==
    IF Len(blocks) < adjustment_interval THEN current_difficulty
    ELSE LET new_difficulty == FloatDiv(FloatFromInt(current_difficulty), TimeRatio(blocks))
         IN DifficultyRound(DifficultyClamp(new_difficulty, current_difficulty))

(* DifficultyAdjuster.should_adjust_difficulty                             *)
should_adjust_difficulty(block_index) == (block_index + 1) % adjustment_interval = 0

(* A call of calculate_new_difficulty.  The call reads nothing of ret, so  *)
(* it is explored after every other operation and not after itself.        *)
CalculateNewDifficulty(blocks, current_difficulty) ==
    /\ ret.op # "calculate_new_difficulty"
    /\ ret' = IF DifficultyRaises(blocks)
              THEN [op |-> "calculate_new_difficulty", blocks |-> blocks,
                    current_difficulty |-> current_difficulty, raised |-> TRUE,
                    result |-> 0]
              ELSE [op |-> "calculate_new_difficulty", blocks |-> blocks,
                    current_difficulty |-> current_difficulty, raised |-> FALSE,
                    result |-> calculate_new_difficulty(blocks, current_difficulty)]
    /\ UNCHANGED <<now, difficultyVars, threads, consensusVars, stakingVars, slashingVars, forkVars>>

(* A call of should_adjust_difficulty.                                     *)
ShouldAdjustDifficulty(block_index) ==
    /\ ret' = [op |-> "should_adjust_difficulty", block_index |-> block_index,
               result |-> should_adjust_difficulty(block_index)]
    /\ UNCHANGED <<now, difficultyVars, threads, consensusVars, stakingVars, slashingVars, forkVars>>

(* DifficultyAdjuster.validate_difficulty.  At an adjustment height line   *)
(* 141 hands calculate_new_difficulty the integer previous_block.index + 1 *)
(* where it expects the list of blocks, and len() of it at line 53 raises  *)
(* TypeError.                                                              *)
ValidateDifficulty(block, previous_block) ==
    /\ ret' = IF should_adjust_difficulty(previous_block.index)
              THEN [op |-> "validate_difficulty", block |-> block,
                    previous_block |-> previous_block, raised |-> TRUE, result |-> FALSE]
              ELSE [op |-> "validate_difficulty", block |-> block,
                    previous_block |-> previous_block, raised |-> FALSE,
                    result |-> block.difficulty = previous_block.difficulty]
    /\ UNCHANGED <<now, difficultyVars, threads, consensusVars, stakingVars, slashingVars, forkVars>>

-----------------------------------------------------------------------------
(* ConsensusManager (consensus/interface.py): the state after              *)
(* ConsensusManager(initial_consensus, **kw).                              *)

(* A strategy object: its identity, its class and its constructor fields.  *)
Strategy(id, type, kw) ==
    [id |-> id, type |-> type,
     difficulty |-> IF type = "pow" THEN kw.difficulty ELSE 0,
     manager |-> IF type = "pos" \/ type = "pbft" THEN kw.validator_manager
                 ELSE IF type = "dpos" THEN kw.delegate_manager ELSE {},
     f |-> IF type = "pbft" THEN kw.f ELSE 0]

(* ConsensusManager.__init__ with a recognized initial type.               *)
ConsensusInit(initial_consensus, kw) ==
    /\ kwargs = kw
    /\ objects_created = 1
    /\ consensus_mechanisms = [t \in {initial_consensus} |-> Strategy(1, initial_consensus, kw)]
    /\ current_consensus = Strategy(1, initial_consensus, kw)

(* The keyword arguments of the node: PoW difficulty 3, authorities that   *)
(* accept no block's signature, f = 1.                                     *)
DefaultKwargs ==
    [difficulty |-> 3, validator_manager |-> {}, delegate_manager |-> {}, f |-> 1]

(* A block hash is a number standing for its digest string of HashWidth    *)
(* hexadecimal characters; HashDigits gives the characters' values.        *)
HashWidth == 5
HashDigits(h) == [i \in 1..HashWidth |-> (h \div Pow2(4 * (HashWidth - i))) % 16]

(* Lines 103-104: block.hash.startswith('0' * n)                           *)
StartsWithZeros(h, n) ==
    /\ n <= HashWidth
    /\ \A i \in 1..n : HashDigits(h)[i] = 0

(* validator_manager.validate_block(block) and                             *)
(* delegate_manager.validate_block(block): the authority accepts the       *)
(* blocks signed by the validators it knows.                               *)
ManagerValidates(manager, block) == block.validator \in manager

LinkageHolds_HashOnly(block, previous_block) ==
    block.previous_hash = previous_block.hash

(* Lines 108-112, 161-165 and 213-217: the block structure checks.         *)
LinkageHolds(block, previous_block) ==
    /\ block.previous_hash = previous_block.hash
    /\ block.index = previous_block.index + 1

(* validate_block of the four strategy classes.                            *)
StrategyValidates(strategy, block, previous_block) ==
    IF strategy.type = "pow"
    THEN StartsWithZeros(block.hash, strategy.difficulty) /\ LinkageHolds(block, previous_block)
    ELSE IF strategy.type = "pbft" THEN TRUE
    ELSE ManagerValidates(strategy.manager, block) /\ LinkageHolds(block, previous_block)

CONSENSUS_TYPES == {"pow", "pos", "dpos", "pbft"}

(* ConsensusFactory.create raises ValueError.                              *)
CreateRaises(consensus_type) == consensus_type \notin CONSENSUS_TYPES

SwitchConsensus_AlwaysCreates(consensus_type) ==
    /\ IF CreateRaises(consensus_type)
       THEN /\ UNCHANGED <<current_consensus, consensus_mechanisms, objects_created>>
            /\ ret' = [op |-> "switch_consensus", consensus_type |-> consensus_type,
                       raised |-> TRUE]
       ELSE LET created == Strategy(objects_created + 1, consensus_type, kwargs)
            IN /\ objects_created < 8
               /\ objects_created' = objects_created + 1
               /\ consensus_mechanisms' = DictSet(consensus_mechanisms, consensus_type, created)
               /\ current_consensus' = created
               /\ ret' = [op |-> "switch_consensus", consensus_type |-> consensus_type,
                          raised |-> FALSE]
    /\ UNCHANGED <<now, kwargs, difficultyVars, threads, stakingVars, slashingVars, forkVars>>

SwitchConsensus_DefaultsToPow(consensus_type) ==
    LET used == IF CreateRaises(consensus_type) THEN "pow" ELSE consensus_type
    IN /\ IF used \in DOMAIN consensus_mechanisms
          THEN /\ current_consensus' = consensus_mechanisms[used]
               /\ UNCHANGED <<consensus_mechanisms, objects_created>>
          ELSE LET created == Strategy(objects_created + 1, used, kwargs)
               IN /\ objects_created' = objects_created + 1
                  /\ consensus_mechanisms' = DictSet(consensus_mechanisms, used, created)
                  /\ current_consensus' = created
       /\ ret' = [op |-> "switch_consensus", consensus_type |-> consensus_type,
                  raised |-> FALSE]
       /\ UNCHANGED <<now, kwargs, difficultyVars, threads, stakingVars, slashingVars, forkVars>>

(* ConsensusManager.switch_consensus                                       *)
SwitchConsensus(consensus_type) ==
    /\ IF consensus_type \in DOMAIN consensus_mechanisms
       THEN /\ current_consensus' = consensus_mechanisms[consensus_type]
            /\ UNCHANGED <<consensus_mechanisms, objects_created>>
            /\ ret' = [op |-> "switch_consensus", consensus_type |-> consensus_type,
                       raised |-> FALSE]
       ELSE IF CreateRaises(consensus_type)
       THEN /\ UNCHANGED <<current_consensus, consensus_mechanisms, objects_created>>
            /\ ret' = [op |-> "switch_consensus", consensus_type |-> consensus_type,
                       raised |-> TRUE]
       ELSE LET created == Strategy(objects_created + 1, consensus_type, kwargs)
            IN /\ objects_created' = objects_created + 1
               /\ consensus_mechanisms' = DictSet(consensus_mechanisms, consensus_type, created)
               /\ current_consensus' = created
               /\ ret' = [op |-> "switch_consensus", consensus_type |-> consensus_type,
                          raised |-> FALSE]
    /\ UNCHANGED <<now, kwargs, difficultyVars, threads, stakingVars, slashingVars, forkVars>>

(* calculate_reward of the four strategy classes (lines 122-124, 175-177,  *)
(* 235-237, 285-287): 50.0, 25.0, 15.0 and 10.0.                           *)
StrategyReward(strategy) ==
    CASE strategy.type = "pow" -> 50
      [] strategy.type = "pos" -> 25
      [] strategy.type = "dpos" -> 15
      [] strategy.type = "pbft" -> 10

(* A collector that counts every peer as agreeing.                         *)
CollectAgreements_OnePerPeer(local_chain, peers) == peers

(* PBFTInterface._collect_agreements: the list it returns is always empty. *)
CollectAgreements(local_chain, peers) == <<>>

(* is_consensus_achieved of the four strategy classes: True for PoW, PoS   *)
(* and DPoS, len(agreement) >= 2 * f + 1 for PBFT.                         *)
StrategyConsensusAchieved(strategy, local_chain, peers) ==
    IF strategy.type = "pbft"
    THEN Len(CollectAgreements(local_chain, peers)) >= 2 * strategy.f + 1
    ELSE TRUE

(* validator_manager.select_validator(block) and                           *)
(* delegate_manager.select_delegate(): the authority names one of the      *)
(* validators it knows, None when it knows none.                           *)
AuthoritySelects(manager) ==
    IF manager = {} THEN "None" ELSE CHOOSE v \in manager : TRUE

(* A rotation that starts one position late.                               *)
RoundRobin_FromOne(candidates, block) == candidates[((block.index + 1) % Len(candidates)) + 1]

(* Lines 297-299: candidates[block.index % len(candidates)]                *)
RoundRobin(candidates, block) == candidates[(block.index % Len(candidates)) + 1]

(* PBFT's select_validator raises ZeroDivisionError on an empty list.      *)
SelectRaises(strategy, candidates) == strategy.type = "pbft" /\ candidates = <<>>

(* select_validator of the four strategy classes, when it does not raise.  *)
StrategySelects(strategy, candidates, block) ==
    CASE strategy.type = "pow" -> "pow_miner"
      [] strategy.type = "pbft" -> RoundRobin(candidates, block)
      [] OTHER -> AuthoritySelects(strategy.manager)

(* mine_block of the four strategy classes: the new block's index and      *)
(* previous_hash follow the previous block; DPoS names the elected         *)
(* delegate as its validator; PoW and PoS hand the call to their miner.    *)
StrategyMines(strategy, previous_block) ==
    [index |-> previous_block.index + 1, previous_hash |-> previous_block.hash,
     validator |-> IF strategy.type = "pos" \/ strategy.type = "dpos"
                   THEN AuthoritySelects(strategy.manager) ELSE "None",
     miner |-> IF strategy.type = "pow" THEN <<"ProofOfWork", strategy.difficulty>>
               ELSE IF strategy.type = "pos" THEN <<"ProofOfStake", strategy.manager>>
               ELSE <<>>]

(* ConsensusManager.mine_block                                             *)
MineBlock(previous_block) ==
    /\ ret' = [op |-> "mine_block", previous_block |-> previous_block,
               result |-> StrategyMines(current_consensus, previous_block)]
    /\ UNCHANGED <<now, consensusVars, difficultyVars, threads, stakingVars, slashingVars, forkVars>>

(* ConsensusManager.calculate_reward                                       *)
CalculateReward(block) ==
    /\ ret' = [op |-> "calculate_reward", block |-> block,
               result |-> StrategyReward(current_consensus)]
    /\ UNCHANGED <<now, consensusVars, difficultyVars, threads, stakingVars, slashingVars, forkVars>>

(* ConsensusManager.is_consensus_achieved                                  *)
IsConsensusAchieved(local_chain, peers) ==
    /\ ret' = [op |-> "is_consensus_achieved", chain |-> local_chain, peers |-> peers,
               result |-> StrategyConsensusAchieved(current_consensus, local_chain, peers)]
    /\ UNCHANGED <<now, consensusVars, difficultyVars, threads, stakingVars, slashingVars, forkVars>>

(* ConsensusManager.select_validator                                       *)
SelectValidator(candidates, block) ==
    /\ ret' = IF SelectRaises(current_consensus, candidates)
              THEN [op |-> "select_validator", candidates |-> candidates, block |-> block,
                    raised |-> TRUE, result |-> "None"]
              ELSE [op |-> "select_validator", candidates |-> candidates, block |-> block,
                    raised |-> FALSE,
                    result |-> StrategySelects(current_consensus, candidates, block)]
    /\ UNCHANGED <<now, consensusVars, difficultyVars, threads, stakingVars, slashingVars, forkVars>>

(* ConsensusManager.validate_block                                         *)
ValidateBlock(block, previous_block) ==
    /\ ret' = [op |-> "validate_block", block |-> block, previous_block |-> previous_block,
               result |-> StrategyValidates(current_consensus, block, previous_block)]
    /\ UNCHANGED <<now, consensusVars, difficultyVars, threads, stakingVars, slashingVars, forkVars>>

-----------------------------------------------------------------------------
(* ForkHandler (core/fork.py) over the Blockchain it is given.  A Block is *)
(* [index, hash, previous_hash, timestamp, difficulty, valid]; valid is    *)
(* what the block's own validate_block() answers.                          *)

GenesisPrev == 0
BadHash == 99
UnprovenOffset == 4096

(* The hash of the tag-th candidate block at an index: blocks of equal    *)
(* hash are the same block.                                                *)
HashOf(index, tag) == 10 * (index + 1) + tag

(* The content of a candidate block: the tag fixes its difficulty and how  *)
(* long after its predecessor it was mined.                                *)
DifficultyOf(tag) == 1 + tag
MinedAfter(tag) == 2 - tag

Block(index, tag, previous_hash, previous_time, valid) ==
    [index |-> index, hash |-> HashOf(index, tag), previous_hash |-> previous_hash,
     timestamp |-> previous_time + MinedAfter(tag), difficulty |-> DifficultyOf(tag),
     valid |-> valid]

(* Blockchain.get_last_block                                               *)
get_last_block(c) == c[Len(c)]

(* The chains the model builds: the blocks of c, then new blocks, block j  *)
(* of them built on its predecessor with tag shape[j], except that one     *)
(* block may skip an index ("gap"), name a wrong predecessor ("link") or   *)
(* fail its own validation ("invalid"); or the last block may carry a      *)
(* digest with a single leading zero character ("unproven").               *)
RECURSIVE Extend(_, _, _, _)
Extend(c, shape, j, defect) ==
    IF j > Len(shape) THEN c
    ELSE LET here == defect[2] = j
             prevIndex == IF c = <<>> THEN -1 ELSE get_last_block(c).index
             prevHash == IF c = <<>> THEN GenesisPrev ELSE get_last_block(c).hash
             prevTime == IF c = <<>> THEN 0 ELSE get_last_block(c).timestamp
             b == Block(prevIndex + 1 + (IF here /\ defect[1] = "gap" THEN 1 ELSE 0),
                        shape[j],
                        IF here /\ defect[1] = "link" THEN BadHash ELSE prevHash,
                        prevTime,
                        ~(here /\ defect[1] = "invalid"))
             built == IF here /\ defect[1] = "unproven"
                      THEN [b EXCEPT !.hash = @ + UnprovenOffset] ELSE b
         IN Extend(Append(c, built), shape, j + 1, defect)

NoDefect == <<"none", 0>>

(* A well-formed chain of n blocks, as the node's append path builds it.   *)
GenesisChain(n) == Extend(<<>>, [j \in 1..n |-> 0], 1, NoDefect)

(* Block.validate_block                                                    *)
validate_block(block) == block.valid

(* ForkHandler._update_block_hash_map                                      *)
HashMapOf(c) ==
    [h \in {c[i].hash : i \in 1..Len(c)} |->
        c[CHOOSE i \in 1..Len(c) :
              c[i].hash = h /\ \A j \in 1..Len(c) : c[j].hash = h => j <= i]]

(* ForkHandler.__init__ on a blockchain holding chain c                    *)
ForkInit(c, threshold, strategy) ==
    /\ chain = c
    /\ block_hash_map = HashMapOf(c)
    /\ forks = <<>>
    /\ fork_threshold = threshold
    /\ resolution_strategy = strategy

Min(a, b) == IF a < b THEN a ELSE b

(* Lines 56-63: the last index of the run of equal hashes from index 0,    *)
(* -1 standing for None.                                                   *)
RECURSIVE CommonAncestorFrom(_, _, _)
CommonAncestorFrom(local, peer, i) ==
    IF i < Min(Len(local), Len(peer)) /\ local[i + 1].hash = peer[i + 1].hash
    THEN CommonAncestorFrom(local, peer, i + 1)
    ELSE i - 1

CommonAncestor(local, peer) == CommonAncestorFrom(local, peer, 0)

ForkDetected_AnyCommonAncestor(local, peer) ==
    LET common_ancestor == CommonAncestor(local, peer)
        fork_depth == Len(local) - common_ancestor - 1
        peer_fork_depth == Len(peer) - common_ancestor - 1
    IN /\ ~(Len(peer) < 2 \/ Len(local) < 2)
       /\ common_ancestor # -1
       /\ (fork_depth >= fork_threshold \/ peer_fork_depth >= fork_threshold)

ForkDetected_BothDeep(local, peer) ==
    LET common_ancestor == CommonAncestor(local, peer)
        min_length == Min(Len(local), Len(peer))
    IN /\ ~(Len(peer) < 2 \/ Len(local) < 2)
       /\ common_ancestor # -1
       /\ common_ancestor < min_length - 1
       /\ Len(local) - common_ancestor - 1 >= fork_threshold
       /\ Len(peer) - common_ancestor - 1 >= fork_threshold

(* Lines 66-72: a common ancestor is found, the chains diverge after it    *)
(* and one side is at least fork_threshold blocks past it.                 *)
ForkDetected(local, peer) ==
    LET common_ancestor == CommonAncestor(local, peer)
        min_length == Min(Len(local), Len(peer))
        fork_depth == Len(local) - common_ancestor - 1
        peer_fork_depth == Len(peer) - common_ancestor - 1
    IN /\ ~(Len(peer) < 2 \/ Len(local) < 2)
       /\ common_ancestor # -1
       /\ common_ancestor < min_length - 1
       /\ (fork_depth >= fork_threshold \/ peer_fork_depth >= fork_threshold)

(* Lines 73-79                                                             *)
ForkInfo(local, peer) ==
    LET common_ancestor == CommonAncestor(local, peer)
    IN [common_ancestor_index |-> common_ancestor,
        common_ancestor_hash |-> local[common_ancestor + 1].hash,
        local_fork_length |-> Len(local) - common_ancestor - 1,
        peer_fork_length |-> Len(peer) - common_ancestor - 1,
        detection_time |-> now]

(* ForkHandler.detect_fork: the forks list after the call                  *)
ForksAfterDetect(peer) ==
    IF ForkDetected(chain, peer) THEN Append(forks, ForkInfo(chain, peer)) ELSE forks

(* ForkHandler.detect_fork                                                 *)
DetectFork(peer) ==
    /\ Len(forks) < MaxForks
    /\ forks' = ForksAfterDetect(peer)
    /\ ret' = [op |-> "detect_fork", peer |-> peer, result |-> ForkDetected(chain, peer)]
    /\ UNCHANGED <<difficultyVars, threads, consensusVars, now, stakingVars, slashingVars, chain, block_hash_map,
                   fork_threshold, resolution_strategy>>

IsChainValid_LastPairOnly(c) ==
    Len(c) >= 2 =>
        /\ c[Len(c)].index = c[Len(c) - 1].index + 1
        /\ c[Len(c)].previous_hash = c[Len(c) - 1].hash
        /\ validate_block(c[Len(c)])

(* ForkHandler._is_chain_valid                                             *)
IsChainValid(c) ==
    \A i \in 2..Len(c) :
        /\ c[i].index = c[i - 1].index + 1
        /\ c[i].previous_hash = c[i - 1].hash
        /\ validate_block(c[i])

RECURSIVE SumDifficulty(_)
SumDifficulty(c) == IF c = <<>> THEN 0 ELSE Head(c).difficulty + SumDifficulty(Tail(c))

(* The value the strategy's comparator gives a chain (lines 119, 138-139,  *)
(* 159-160).                                                               *)
ChainStrength(strategy, c) ==
    IF strategy = "longest_chain" THEN Len(c)
    ELSE IF strategy = "cumulative_difficulty" THEN SumDifficulty(c)
    ELSE get_last_block(c).timestamp

PeerStronger_OrEqual(strategy, local, peer) ==
    ChainStrength(strategy, peer) >= ChainStrength(strategy, local)

(* The comparisons of _resolve_by_length, _resolve_by_difficulty and       *)
(* _resolve_by_timestamp (lines 119, 141, 162).                            *)
PeerStronger(strategy, local, peer) ==
    ChainStrength(strategy, peer) > ChainStrength(strategy, local)

RESOLUTION_STRATEGIES == {"longest_chain", "cumulative_difficulty", "latest_timestamp"}

(* ForkHandler.resolve_fork: "ValueError" when a detected fork meets an    *)
(* unknown strategy (line 107).                                            *)
ResolveRaises(peer) ==
    ForkDetected(chain, peer) /\ resolution_strategy \notin RESOLUTION_STRATEGIES

(* The chain is swapped (lines 119-124, 141-145, 162-166).                 *)
ResolveSwaps(peer) ==
    /\ ForkDetected(chain, peer)
    /\ resolution_strategy \in RESOLUTION_STRATEGIES
    /\ PeerStronger(resolution_strategy, chain, peer)
    /\ IsChainValid(peer)

ResolveFork_StaleIndex(peer) ==
    /\ Len(forks) < MaxForks
    /\ forks' = ForksAfterDetect(peer)
    /\ chain' = IF ResolveSwaps(peer) THEN peer ELSE chain
    /\ ret' = [op |-> "resolve_fork", peer |-> peer,
               raised |-> ResolveRaises(peer), result |-> ResolveSwaps(peer)]
    /\ UNCHANGED <<difficultyVars, threads, consensusVars, now, stakingVars, slashingVars, block_hash_map,
                   fork_threshold, resolution_strategy>>

(* ForkHandler.resolve_fork                                                *)
ResolveFork(peer) ==
    /\ Len(forks) < MaxForks
    /\ forks' = ForksAfterDetect(peer)
    /\ IF ResolveSwaps(peer)
       THEN /\ chain' = peer
            /\ block_hash_map' = HashMapOf(peer)
       ELSE UNCHANGED <<chain, block_hash_map>>
    /\ ret' = [op |-> "resolve_fork", peer |-> peer,
               raised |-> ResolveRaises(peer), result |-> ResolveSwaps(peer)]
    /\ UNCHANGED <<difficultyVars, threads, consensusVars, now, stakingVars, slashingVars, fork_threshold, resolution_strategy>>

(* ForkHandler.set_resolution_strategy                                     *)
SetResolutionStrategy(strategy) ==
    /\ resolution_strategy' =
           IF strategy \in RESOLUTION_STRATEGIES THEN strategy ELSE resolution_strategy
    /\ ret' = [op |-> "set_resolution_strategy", strategy |-> strategy,
               raised |-> strategy \notin RESOLUTION_STRATEGIES]
    /\ UNCHANGED <<difficultyVars, threads, consensusVars, now, stakingVars, slashingVars, chain,
                   block_hash_map, forks, fork_threshold>>

Shapes == UNION {[1..m -> 0..1] : m \in 0..MaxSuffix}

Defects(shape) ==
    {NoDefect} \cup ({"gap", "link", "invalid"} \X (1..Len(shape)))
               \cup {<<"unproven", j>> : j \in {Len(shape)} \ {0}}

(* The peer chains the calls are made with: a prefix of the local chain    *)
(* followed by blocks of the peer's own.                                   *)
PeerChains ==
    UNION {{Extend(SubSeq(chain, 1, k), shape, 1, defect) : defect \in Defects(shape)} :
              <<k, shape>> \in {ks \in (0..Len(chain)) \X Shapes :
                                   ks[1] + Len(ks[2]) <= MaxChainLen}}
    \ {<<>>}

InitChainLens == {1, 3}

InitFork ==
    /\ now = 0
    /\ StakingInit
    /\ SlashingInit
    /\ DifficultyInit(DefaultTargetBlockTime, DefaultAdjustmentInterval,
                      DefaultMinDifficulty, DefaultMaxDifficulty, DefaultChangeLimit)
    /\ ConsensusInit("pow", DefaultKwargs)
    /\ \E n \in InitChainLens, threshold \in 1..2, strategy \in RESOLUTION_STRATEGIES :
           ForkInit(GenesisChain(n), threshold, strategy)
    /\ threads = <<>>
    /\ ret = [op |-> "init"]

NextFork ==
    \/ \E peer \in PeerChains : DetectFork(peer)
    \/ \E peer \in PeerChains : ResolveFork(peer)

SpecFork == InitFork /\ [][NextFork]_vars

InitSlashing ==
    /\ now = ClockStart
    /\ StakingInit
    /\ SlashingInit
    /\ DifficultyInit(DefaultTargetBlockTime, DefaultAdjustmentInterval,
                      DefaultMinDifficulty, DefaultMaxDifficulty, DefaultChangeLimit)
    /\ ConsensusInit("pow", DefaultKwargs)
    /\ ForkInit(GenesisChain(1), 2, "longest_chain")
    /\ threads = <<>>
    /\ ret = [op |-> "init"]

NextSlashing ==
    \/ \E v \in Observed, b \in Behaviors :
           CanRecord(v, MaxBehaviors) /\ RecordValidatorBehavior(v, b)
    \/ \E v \in Validators, r \in SlashReasonInputs, a \in SlashAmountInputs, d \in 0..1 :
           SlashValidator(v, r, a, d)
    \/ \E v \in Validators : ClearBehaviorHistory(v)
    \/ \E v \in Validators : CheckSlashingConditions(v)
    \/ \E v \in Validators : IsValidatorEligible(v)
    \/ SlashingTickAction

SpecSlashing == InitSlashing /\ [][NextSlashing]_vars

-----------------------------------------------------------------------------
(* StakingPool: the clock and the specification.                           *)

(* time.time() advancing between calls.                                    *)
StakingTickAction ==
    /\ Len(reward_history) < MaxHistory
    /\ now < MaxTicks * StakingTick
    /\ now' = now + StakingTick
    /\ ret' = [op |-> "tick"]
    /\ UNCHANGED <<difficultyVars, threads, consensusVars, stakingVars, slashingVars, forkVars>>

InitStaking ==
    /\ now = 0
    /\ StakingInit
    /\ SlashingInit
    /\ DifficultyInit(DefaultTargetBlockTime, DefaultAdjustmentInterval,
                      DefaultMinDifficulty, DefaultMaxDifficulty, DefaultChangeLimit)
    /\ ConsensusInit("pow", DefaultKwargs)
    /\ ForkInit(GenesisChain(1), 2, "longest_chain")
    /\ threads = <<>>
    /\ ret = [op |-> "init"]

NextStaking ==
    \/ \E p \in StakePairs, a \in StakeAmounts : Stake(p[1], p[2], a)
    \/ \E p \in StakePairs, a \in StakeAmounts : Unstake(p[1], p[2], a)
    \/ ProcessUnstaking
    \/ \E r \in RewardInputs : AddRewards(r[1], r[2])
    \/ DistributeRewards
    \/ StakingTickAction

SpecStaking == InitStaking /\ [][NextStaking]_vars

-----------------------------------------------------------------------------
(* Properties of StakingPool.                                              *)

(* The sum of the amounts of the requests of queue q that satisfy Sel.     *)
RECURSIVE SumSeq(_)
SumSeq(xs) == IF xs = <<>> THEN 0 ELSE Head(xs) + SumSeq(Tail(xs))

SumRequests(q, Sel(_)) ==
    SumSeq([i \in 1..Len(q) |-> IF Sel(q[i]) THEN q[i].amount ELSE 0])

PendingTotal(v, s) ==
    SumRequests(unstaking_queue,
                LAMBDA r : r.validator_address = v /\ r.staker_address = s /\ ~r.completed)

(* C1: for every (validator, staker) pair the amounts of the staker's      *)
(* uncompleted unstake requests sum to at most the staker's staked balance *)
(* with that validator, so an unstake that would push the pending total    *)
(* over the balance has enqueued nothing.                                  *)
C1_PendingWithinBalance ==
    \A p \in StakePairs : PendingTotal(p[1], p[2]) <= get_staker_stake(p[1], p[2])

(* C2: every self-stake, every delegator stake, every validator's total    *)
(* stake and the global total_stake are >= 0 in every reachable state.     *)
C2_StakesNonNegative ==
    /\ total_stake >= 0
    /\ \A v \in DOMAIN validator_stakes :
           /\ validator_stakes[v] >= 0
           /\ get_validator_stake(v) >= 0
           /\ \A s \in DOMAIN delegator_stakes[v] : delegator_stakes[v][s] >= 0

(* The amounts of the uncompleted requests of (v, s) that have reached     *)
(* their release time.                                                     *)
MaturedTotal(v, s) ==
    SumRequests(unstaking_queue,
                LAMBDA r : r.validator_address = v /\ r.staker_address = s /\ Matured(r, now))

MaturedAll == SumRequests(unstaking_queue, LAMBDA r : Matured(r, now))

C7_Step ==
    /\ (ret'.op = "unstake" /\ ret'.result) =>
           /\ total_stake' = total_stake
           /\ validator_stakes' = validator_stakes
           /\ delegator_stakes' = delegator_stakes
    /\ ret'.op = "process_unstaking" =>
           /\ total_stake' = total_stake - MaturedAll
           /\ \A p \in StakePairs :
                  get_staker_stake(p[1], p[2])' =
                      get_staker_stake(p[1], p[2]) - MaturedTotal(p[1], p[2])

(* C7: a successful unstake changes no balance and not total_stake; a      *)
(* process_unstaking call leaves alone the balances of the requests still  *)
(* before their release time and takes exactly the amount of every request *)
(* that has reached it from the staker's balance and from total_stake.     *)
C7_UnstakeAppliedAtRelease == [][C7_Step]_vars

(* The amounts of the requests of (v, s) completed by the current step.    *)
FlippedTotal(q, q1, Sel(_)) ==
    SumSeq([i \in 1..Len(q) |->
               IF Sel(q[i]) /\ ~q[i].completed /\ q1[i].completed THEN q[i].amount ELSE 0])

C8_Step ==
    /\ Len(unstaking_queue') >= Len(unstaking_queue)
    /\ \A i \in 1..Len(unstaking_queue) :
           /\ unstaking_queue'[i] =
                  [unstaking_queue[i] EXCEPT !.completed = unstaking_queue'[i].completed]
           /\ unstaking_queue[i].completed => unstaking_queue'[i].completed
    /\ ret'.op = "process_unstaking" =>
           /\ total_stake - total_stake' =
                  FlippedTotal(unstaking_queue, unstaking_queue', LAMBDA r : TRUE)
           /\ \A p \in StakePairs :
                  get_staker_stake(p[1], p[2]) - get_staker_stake(p[1], p[2])' =
                      FlippedTotal(unstaking_queue, unstaking_queue',
                                   LAMBDA r : r.validator_address = p[1]
                                              /\ r.staker_address = p[2])

(* What a process_unstaking call made in the current state does.           *)
ProcessNow ==
    ProcessFrom([vs |-> validator_stakes, ds |-> delegator_stakes, total |-> total_stake,
                 queue |-> unstaking_queue, processed |-> <<>>, raised |-> FALSE], 1, now)

C8_SecondCallEmpty ==
    ret.op = "process_unstaking" =>
        /\ ~ProcessNow.raised
        /\ ProcessNow.processed = <<>>
        /\ ProcessNow.vs = validator_stakes
        /\ ProcessNow.ds = delegator_stakes
        /\ ProcessNow.total = total_stake
        /\ ProcessNow.queue = unstaking_queue

(* C8: every unstake request is applied at most once: its completed flag   *)
(* only goes from false to true, its other fields never change, balances   *)
(* drop only by the amounts of the requests a call completes, and a        *)
(* process_unstaking call right after another returns an empty list and    *)
(* changes nothing.                                                        *)
C8_AppliedAtMostOnce == [][C8_Step]_vars /\ []C8_SecondCallEmpty

SumAmounts(ds) == SumSeq([i \in 1..Len(ds) |-> ds[i].amount])

(* C9: a distribute_rewards pass that proceeds (pool and total_stake not   *)
(* zero) leaves reward_pool = 0, so the next pass distributes nothing,     *)
(* returns only amounts >= 0 and returns in sum at most the pool it found. *)
C9_PoolConsumedOnce ==
    (ret.op = "distribute_rewards" /\ ret.pool # 0 /\ total_stake # 0) =>
        /\ ~ret.raised
        /\ reward_pool = 0
        /\ DistributeSkips
        /\ \A i \in 1..Len(ret.result) : ret.result[i].amount >= 0
        /\ SumAmounts(ret.result) <= ret.pool

-----------------------------------------------------------------------------
(* Properties of SlashingMechanism.                                        *)

EventsOf(v) == SelectSeq(slashing_events, LAMBDA e : e.validator_address = v)

C3_Inv ==
    \A v \in Validators :
        LET es == EventsOf(v)
        IN /\ \A i, j \in 1..Len(es) :
                  i < j => es[j].timestamp - es[i].timestamp >= slash_cooldown
           /\ es # <<>> =>
                  /\ v \in DOMAIN validator_history
                  /\ validator_history[v].last_slash_time = es[Len(es)].timestamp

C3_Act ==
    \A v \in Validators :
        (/\ ret'.op = "slash_validator"
         /\ ret'.validator = v
         /\ EventsOf(v) # <<>>
         /\ now - EventsOf(v)[Len(EventsOf(v))].timestamp < slash_cooldown)
        => /\ ret'.raised = "Exception" \/ ret'.raised = "ValueError"
           /\ slashing_events' = slashing_events
           /\ validator_history' = validator_history

(* C3: two slash events of one validator are at least slash_cooldown       *)
(* apart and last_slash_time is the time of the validator's last event; a  *)
(* slash_validator call inside the window of the last event raises and     *)
(* records nothing.                                                        *)
C3_CooldownSeparatesSlashes == []C3_Inv /\ [][C3_Act]_vars

(* A validator slashed twice, a cooldown apart, whose third slash inside   *)
(* the new window has just been refused.                                   *)
C3_Witness ==
    /\ ret.op = "slash_validator"
    /\ ret.raised = "Exception"
    /\ Len(EventsOf(ret.validator)) = 2
    /\ now - validator_history[ret.validator].last_slash_time < slash_cooldown

-----------------------------------------------------------------------------
(* Properties of ForkHandler.                                              *)

(* What the configured comparator measures on a chain.                     *)
C4_Value(c) ==
    CASE resolution_strategy = "longest_chain" -> Len(c)
      [] resolution_strategy = "cumulative_difficulty" ->
             SumSeq([i \in 1..Len(c) |-> c[i].difficulty])
      [] resolution_strategy = "latest_timestamp" -> c[Len(c)].timestamp

C4_Act ==
    /\ C4_Value(chain') >= C4_Value(chain)
    /\ chain' # chain =>
           /\ ret'.op = "resolve_fork"
           /\ chain' = ret'.peer
           /\ C4_Value(chain') > C4_Value(chain)
    /\ (ret'.op = "resolve_fork" /\ C4_Value(ret'.peer) <= C4_Value(chain)) =>
           /\ chain' = chain
           /\ ~ret'.result

(* C4: resolve_fork replaces the local chain only by a peer chain that is  *)
(* strictly stronger under the configured comparator; a peer chain that    *)
(* ties or is weaker is never adopted, so the local chain's comparator     *)
(* value never decreases and changes only by strictly increasing.          *)
C4_SwapOnlyWhenStrictlyStronger == [][C4_Act]_vars

(* A well-formed peer chain forking from the local chain and tying it      *)
(* under the comparator has just been refused.                             *)
C4_Witness ==
    /\ ret.op = "resolve_fork"
    /\ ~ret.result
    /\ ForkDetected(chain, ret.peer)
    /\ IsChainValid(ret.peer)
    /\ C4_Value(ret.peer) = C4_Value(chain)

(* Both linkage conditions on every adjacent pair of blocks of c.          *)
C5_Linked(c) ==
    \A i \in 1..(Len(c) - 1) :
        /\ c[i + 1].index = c[i].index + 1
        /\ c[i + 1].previous_hash = c[i].hash

C5_Act ==
    (ret'.op = "resolve_fork" /\ ~C5_Linked(ret'.peer)) =>
        /\ chain' = chain
        /\ ~ret'.result

(* C5: from a local chain whose adjacent blocks are linked by index and by *)
(* previous_hash, the local chain stays so linked after any sequence of    *)
(* resolve_fork calls: a peer chain with an index gap or a broken          *)
(* previous_hash link anywhere is never adopted.                           *)
C5_LocalChainStaysLinked == []C5_Linked(chain) /\ [][C5_Act]_vars

(* A peer chain forking from the local chain and strictly stronger, but    *)
(* broken at some pair of blocks, has just been refused.                   *)
C5_Witness ==
    /\ ret.op = "resolve_fork"
    /\ ~ret.result
    /\ ForkDetected(chain, ret.peer)
    /\ C4_Value(ret.peer) > C4_Value(chain)
    /\ ~C5_Linked(ret.peer)

(* The length of the common prefix of two chains: the number of leading    *)
(* positions at which their blocks have the same hash.                     *)
C6_K(local, peer) ==
    CHOOSE k \in 0..Min(Len(local), Len(peer)) :
        /\ \A i \in 1..k : local[i].hash = peer[i].hash
        /\ k < Min(Len(local), Len(peer)) => local[k + 1].hash # peer[k + 1].hash

(* What detect_fork is said to do on chains with common prefix k.          *)
C6_Reports(local, peer, k) ==
    LET deep == Len(local) - k >= fork_threshold \/ Len(peer) - k >= fork_threshold
    IN /\ ret'.result = deep
       /\ IF deep
          THEN forks' = Append(forks, [common_ancestor_index |-> k - 1,
                                       common_ancestor_hash |-> local[k].hash,
                                       local_fork_length |-> Len(local) - k,
                                       peer_fork_length |-> Len(peer) - k,
                                       detection_time |-> now])
          ELSE forks' = forks

C6_ActOriginal ==
    ret'.op = "detect_fork" => C6_Reports(chain, ret'.peer, C6_K(chain, ret'.peer))

C6_Act ==
    LET k == C6_K(chain, ret'.peer)
    IN (ret'.op = "detect_fork" /\ k >= 1 /\ k < Len(chain) /\ k < Len(ret'.peer))
       => C6_Reports(chain, ret'.peer, k)

-----------------------------------------------------------------------------
(* distribute_rewards on given stake tables.                               *)

RewardSelfStakes == {100, 700}
RewardDelegated == {0, 100, 300}
RewardPools == {0, 50, 100, 150, 1000}

(* The state after v1 staked self for itself, d1 delegated d to v1 (d > 0), *)
(* v2 staked other for itself (other > 0) and add_rewards filled the pool. *)
InitReward ==
    /\ now = 0
    /\ SlashingInit
    /\ DifficultyInit(DefaultTargetBlockTime, DefaultAdjustmentInterval,
                      DefaultMinDifficulty, DefaultMaxDifficulty, DefaultChangeLimit)
    /\ ConsensusInit("pow", DefaultKwargs)
    /\ ForkInit(GenesisChain(1), 2, "longest_chain")
    /\ \E self \in RewardSelfStakes, d \in RewardDelegated, other \in RewardDelegated,
          pool \in RewardPools :
           /\ validator_stakes = IF other = 0 THEN [v \in {"v1"} |-> self]
                                 ELSE [v \in {"v1", "v2"} |-> IF v = "v1" THEN self ELSE other]
           /\ delegator_stakes =
                  [v \in (IF other = 0 THEN {"v1"} ELSE {"v1", "v2"}) |->
                      IF v = "v1" /\ d # 0 THEN [s \in {"d1"} |-> d] ELSE EmptyDict]
           /\ total_stake = self + d + other
           /\ staking_history =
                  <<StakingEvent("v1", "v1", self, "stake")>>
                  \o (IF d = 0 THEN <<>> ELSE <<StakingEvent("v1", "d1", d, "stake")>>)
                  \o (IF other = 0 THEN <<>>
                      ELSE <<StakingEvent("v2", "v2", other, "stake")>>)
           /\ reward_pool = pool
    /\ unstaking_queue = <<>>
    /\ reward_history = <<>>
    /\ threads = <<>>
    /\ ret = [op |-> "init"]

NextReward == DistributeRewards

SpecReward == InitReward /\ [][NextReward]_vars

(* The stake table of the scenario: v1 with self-stake 700 and d1          *)
(* delegating 300 to it, nothing else staked.                              *)
C10_Scenario ==
    /\ ret.op = "distribute_rewards"
    /\ ret.pool = 100
    /\ total_stake = 1000
    /\ validator_stakes = [v \in {"v1"} |-> 700]
    /\ delegator_stakes = [v \in {"v1"} |-> [s \in {"d1"} |-> 300]]

C10_Paid(validator_amount, delegator_amount) ==
    ret.result = <<Distribution("v1", "v1", validator_amount, "validator_reward"),
                   Distribution("v1", "d1", delegator_amount, "delegator_reward")>>

(* C10 as stated: in the scenario distribute_rewards pays the validator 63 *)
(* and the delegator 30.                                                   *)
C10_DelegatorPaidFullShare == C10_Scenario => C10_Paid(63, 30)

(* C10: with self-stake 700, one delegator staking 300, reward_pool 100,   *)
(* validator_share 0.7, delegator_share 0.3 and commission 0.1,            *)
(* distribute_rewards pays the validator 63 and the delegator 9, the       *)
(* delegator share of 30 times the delegator's 300/1000 of the validator's *)
(* total stake.                                                            *)
C10_DelegatorPaidByStake == C10_Scenario => C10_Paid(63, 9)

C10_Witness == C10_Scenario /\ ~ret.raised /\ Len(ret.result) = 2

(* floor(P * validator_share * (1 - commission)) for P = T * pool / total, *)
(* with the shares 0.7 and 0.1 taken as the exact decimals 7/10 and 1/10.  *)
C11_ValidatorFloor(T, pool, total) == (T * pool * 7 * 9) \div (total * 10 * 10)

(* floor(P * delegator_share * d / T) with the share 0.3 taken as 3/10.    *)
C11_DelegatorFloor(d, T, pool, total) == (T * pool * 3 * d) \div (total * 10 * T)

RECURSIVE C11_DelegatorEntries(_, _, _, _, _)
C11_DelegatorEntries(v, ks, T, pool, total) ==
    IF ks = <<>> THEN <<>>
    ELSE <<Distribution(v, Head(ks),
                        C11_DelegatorFloor(delegator_stakes[v][Head(ks)], T, pool, total),
                        "delegator_reward")>>
         \o C11_DelegatorEntries(v, Tail(ks), T, pool, total)

RECURSIVE C11_Entries(_, _, _)
C11_Entries(vks, pool, total) ==
    IF vks = <<>> THEN <<>>
    ELSE LET v == Head(vks)
             T == validator_stakes[v] + SumValues(delegator_stakes[v])
         IN <<Distribution(v, v, C11_ValidatorFloor(T, pool, total), "validator_reward")>>
            \o C11_DelegatorEntries(v, Keys(delegator_stakes[v]), T, pool, total)
            \o C11_Entries(Tail(vks), pool, total)

(* C11: with total_stake > 0 and pool > 0, distribute_rewards returns one  *)
(* validator_reward per validator, of floor(P * validator_share *          *)
(* (1 - commission)), and one delegator_reward per delegator entry, of     *)
(* floor(P * delegator_share * d / T), where T is the validator's self-    *)
(* stake plus the stake delegated to it and P = T * pool / total_stake.    *)
C11_PaysExactFloors ==
    (ret.op = "distribute_rewards" /\ ~ret.raised /\ ret.pool > 0 /\ total_stake > 0)
        => ret.result = C11_Entries(Keys(validator_stakes), ret.pool, total_stake)

-----------------------------------------------------------------------------
(* DifficultyAdjuster: the inputs and the specification.                   *)

MaxCurrentDifficulty == 25
MaxExtraBlocks == 2

DifficultyConfigs == {<<60, 10>>, <<30, 2>>}
WindowStart == 1000
WindowSpans == {-60, 0, 60, 300, 450, 480, 600, 720, 750, 900, 6000}
EarlierSteps == {30, 60}

(* n blocks whose last adjustment_interval blocks start at WindowStart and *)
(* end span seconds later; the blocks before them are lead seconds apart.  *)
WindowBlocks(n, lead, span, difficulty) ==
    LET first == n - adjustment_interval + 1
    IN [i \in 1..n |->
           [index |-> i - 1,
            timestamp |-> IF i = n THEN WindowStart + span
                          ELSE IF i >= first
                          THEN WindowStart + ((i - first) * span) \div adjustment_interval
                          ELSE WindowStart - lead * (first - i),
            difficulty |-> difficulty]]

InitDifficulty ==
    /\ now = 0
    /\ StakingInit
    /\ SlashingInit
    /\ ForkInit(GenesisChain(1), 2, "longest_chain")
    /\ ConsensusInit("pow", DefaultKwargs)
    /\ \E c \in DifficultyConfigs :
           DifficultyInit(c[1], c[2], DefaultMinDifficulty, DefaultMaxDifficulty,
                          DefaultChangeLimit)
    /\ threads = <<>>
    /\ ret = [op |-> "init"]

NextDifficulty ==
    \/ \E n \in (adjustment_interval - 1)..(adjustment_interval + MaxExtraBlocks),
          lead \in EarlierSteps, span \in WindowSpans, d \in 1..MaxCurrentDifficulty :
           CalculateNewDifficulty(WindowBlocks(n, lead, span, d), d)
    \/ \E i \in (adjustment_interval - 2)..adjustment_interval : ShouldAdjustDifficulty(i)

SpecDifficulty == InitDifficulty /\ [][NextDifficulty]_vars

(* A call that returned for a window of at least adjustment_interval blocks. *)
C12_Called ==
    /\ ret.op = "calculate_new_difficulty"
    /\ ~ret.raised
    /\ Len(ret.blocks) >= adjustment_interval

(* C12: for a window of at least adjustment_interval blocks, the result is *)
(* within [D * (1 - change_limit), D * (1 + change_limit)] and within      *)
(* [min_difficulty, max_difficulty]; change_limit is 0.2 in every state of *)
(* SpecDifficulty, so the first range is [8 D / 10, 12 D / 10].            *)
C12_ResultWithinBothRanges ==
    C12_Called =>
        /\ 8 * ret.current_difficulty <= 10 * ret.result
        /\ 10 * ret.result <= 12 * ret.current_difficulty
        /\ min_difficulty <= ret.result
        /\ ret.result <= max_difficulty

(* The scenario: target_block_time 60, adjustment_interval 10, change      *)
(* limit 0.2, limits 1..20, and a window whose last block is 450 seconds   *)
(* after its first.                                                        *)
C13_Scenario ==
    /\ C12_Called
    /\ target_block_time = 60
    /\ adjustment_interval = 10
    /\ difficulty_change_limit = FloatLiteral(2, 10)
    /\ ActualTime(ret.blocks) = 450

(* current * 1.2 clamped to [min_difficulty, max_difficulty] and rounded   *)
(* to the nearest integer, in exact arithmetic (12 * current / 10 is never *)
(* half way between two integers).                                         *)
C13_Expected(current) ==
    IF 12 * current >= 10 * max_difficulty THEN max_difficulty
    ELSE IF 12 * current <= 10 * min_difficulty THEN min_difficulty
    ELSE (12 * current + 5) \div 10

(* C13: in the scenario the ratio is 0.75 and calculate_new_difficulty     *)
(* returns current * 1.2 clamped to [min_difficulty, max_difficulty] and   *)
(* rounded to the nearest integer: 12 for current = 10.                    *)
C13_ScenarioResult ==
    C13_Scenario =>
        /\ TimeRatio(ret.blocks) = FloatLiteral(3, 4)
        /\ ret.result = C13_Expected(ret.current_difficulty)
        /\ ret.current_difficulty = 10 => ret.result = 12

C13_Witness ==
    C13_Scenario /\ ret.current_difficulty = 10 /\ ret.result = 12 /\ Len(ret.blocks) = 10

-----------------------------------------------------------------------------
(* ConsensusManager: the inputs and the specification.                     *)

KwargsInputs ==
    {[difficulty |-> d, validator_manager |-> {"v1"}, delegate_manager |-> {"v2"}, f |-> f] :
        d \in {2, 3, 6}, f \in 0..1}
InitialTypes == {"pow", "pbft"}
SwitchInputs == CONSENSUS_TYPES \cup {"poa"}

(* The predecessor offered to validate_block, and the candidate blocks:    *)
(* digests 00000, 00002, 00012, 00123 and 12345.                           *)
PreviousBlock == [index |-> 1, hash |-> 1, previous_hash |-> 0, validator |-> "v1"]
CandidateBlocks ==
    [index : {1, 2, 3}, hash : {0, 2, 18, 291, 74565}, previous_hash : {1, 77},
     validator : {"v1", "v2"}]

InitConsensus ==
    /\ now = 0
    /\ StakingInit
    /\ SlashingInit
    /\ ForkInit(GenesisChain(1), 2, "longest_chain")
    /\ DifficultyInit(DefaultTargetBlockTime, DefaultAdjustmentInterval,
                      DefaultMinDifficulty, DefaultMaxDifficulty, DefaultChangeLimit)
    /\ \E t \in InitialTypes, kw \in KwargsInputs : ConsensusInit(t, kw)
    /\ threads = <<>>
    /\ ret = [op |-> "init"]

(* The candidate lists and blocks offered to select_validator, and the     *)
(* peer lists offered to is_consensus_achieved.                            *)
MaxSelectIndex == 5
CandidateLists == {<<>>, <<"v1">>, <<"v1", "v2", "v3">>}
SelectBlocks == {[PreviousBlock EXCEPT !.index = i] : i \in 0..MaxSelectIndex}
PeerLists == {<<>>, <<"p1">>, <<"p1", "p2", "p3">>}

NextConsensus ==
    \/ \E t \in SwitchInputs : SwitchConsensus(t)
    \/ \E b \in CandidateBlocks : ValidateBlock(b, PreviousBlock)
    \/ MineBlock(PreviousBlock)
    \/ CalculateReward(PreviousBlock)
    \/ \E peers \in PeerLists : IsConsensusAchieved(chain, peers)
    \/ \E candidates \in CandidateLists, b \in SelectBlocks : SelectValidator(candidates, b)

SpecConsensus == InitConsensus /\ [][NextConsensus]_vars

(* C14: whichever strategy is current, validate_block returns true only if *)
(* block.previous_hash equals previous.hash and block.index equals         *)
(* previous.index + 1.                                                     *)
C14_AcceptedBlocksAreLinked ==
    (ret.op = "validate_block" /\ ret.result) =>
        /\ ret.block.previous_hash = ret.previous_block.hash
        /\ ret.block.index = ret.previous_block.index + 1

(* The digest string of h begins with n zero characters: h is below        *)
(* 16^(HashWidth - n).                                                     *)
C15_BeginsWithZeros(h, n) == n <= HashWidth /\ h < Pow2(4 * (HashWidth - n))

C15_Called == ret.op = "validate_block" /\ current_consensus.type = "pow"

(* C15: PoW validate_block(block, previous) returns true if and only if    *)
(* block.hash begins with `difficulty` zero characters, block.previous_hash *)
(* equals previous.hash and block.index equals previous.index + 1.         *)
C15_PowAcceptsExactly ==
    C15_Called =>
        (ret.result <=>
            /\ C15_BeginsWithZeros(ret.block.hash, current_consensus.difficulty)
            /\ ret.block.previous_hash = ret.previous_block.hash
            /\ ret.block.index = ret.previous_block.index + 1)

C15_Witness ==
    /\ C15_Called
    /\ ret.result
    /\ current_consensus.difficulty = 2
    /\ ret.block.hash = 2

(* C16: when resolve_fork has swapped in a peer chain, every block of the  *)
(* chain after the first is accepted by validate_block of the current      *)
(* ConsensusStrategy against its predecessor.                              *)
C16_AdoptedChainPassesStrategy ==
    (ret.op = "resolve_fork" /\ ret.result) =>
        \A i \in 2..Len(chain) : StrategyValidates(current_consensus, chain[i], chain[i - 1])

(* a is a prefix of b: b begins with the blocks of a (a = b included).     *)
C17_IsPrefix(a, b) == Len(a) <= Len(b) /\ SubSeq(b, 1, Len(a)) = a

C17_Act ==
    (/\ ret'.op \in {"detect_fork", "resolve_fork"}
     /\ (C17_IsPrefix(ret'.peer, chain) \/ C17_IsPrefix(chain, ret'.peer)))
    => /\ ~ret'.result
       /\ ret'.op = "resolve_fork" => ~ret'.raised
       /\ chain' = chain
       /\ forks' = forks

(* C17: when the peer chain is identical to the local chain, a prefix of   *)
(* it or an extension of it by any number of blocks, detect_fork reports   *)
(* no fork and records none, and resolve_fork returns false and leaves the *)
(* local chain unchanged, under each of the three strategies.              *)
C17_PrefixChainsNeverFork == [][C17_Act]_vars

(* resolve_fork has just refused a well-formed peer chain that extends the *)
(* local chain by two blocks and is stronger under the comparator.         *)
C17_Witness ==
    /\ ret.op = "resolve_fork"
    /\ ~ret.result
    /\ C17_IsPrefix(chain, ret.peer)
    /\ Len(ret.peer) = Len(chain) + 2
    /\ IsChainValid(ret.peer)
    /\ PeerStronger(resolution_strategy, chain, ret.peer)

(* The hash index maps exactly the hashes of the blocks of c, each to the  *)
(* block of c that has it.                                                 *)
C18_IndexMatches(c, index) ==
    /\ DOMAIN index = {c[i].hash : i \in 1..Len(c)}
    /\ \A i \in 1..Len(c) : index[c[i].hash] = c[i]

C18_Act ==
    (ret'.op = "resolve_fork" /\ ~ret'.result) =>
        /\ chain' = chain
        /\ block_hash_map' = block_hash_map

(* C18: from a hash index that maps exactly the hashes of the local        *)
(* chain's blocks to those blocks, the index maps exactly the hashes of    *)
(* the local chain's blocks after every resolve_fork call: a swap rebuilds *)
(* it for the new chain, and a call that does not swap leaves the chain    *)
(* and the index as they were.                                             *)
C18_HashIndexFollowsChain ==
    []C18_IndexMatches(chain, block_hash_map) /\ [][C18_Act]_vars

(* resolve_fork has just swapped in a peer chain, and the index holds a    *)
(* block of it that the chain it replaced did not have.                    *)
C18_Witness ==
    /\ ret.op = "resolve_fork"
    /\ ret.result
    /\ chain = ret.peer
    /\ \E i \in 1..Len(chain) :
           /\ chain[i].hash # GenesisChain(i)[i].hash
           /\ block_hash_map[chain[i].hash] = chain[i]

C19_Rejected(v, reason) ==
    \/ reason \notin SLASH_REASONS
    \/ /\ v \in DOMAIN validator_history
       /\ now - validator_history[v].last_slash_time < slash_cooldown

C19_Act ==
    (ret'.op = "slash_validator" /\ C19_Rejected(ret'.validator, ret'.reason)) =>
        /\ ret'.raised # "none"
        /\ slashing_events' = slashing_events
        /\ validator_history' = validator_history

(* C19: a slash_validator call with an unrecognized reason, or for a       *)
(* validator inside its cooldown window, raises and leaves the slashing    *)
(* event list and every validator's record (counters, last_slash_time,     *)
(* behavior log) as they were.                                             *)
C19_RejectedSlashChangesNothing == [][C19_Act]_vars

(* A slash with an unrecognized reason has just been refused for a         *)
(* validator with recorded behavior and an earlier slash, outside its      *)
(* cooldown window.                                                        *)
C19_Witness ==
    /\ ret.op = "slash_validator"
    /\ ret.raised = "ValueError"
    /\ ret.reason \notin SLASH_REASONS
    /\ ret.validator \in DOMAIN validator_history
    /\ validator_history[ret.validator].behavior_history # <<>>
    /\ EventsOf(ret.validator) # <<>>
    /\ now - validator_history[ret.validator].last_slash_time >= slash_cooldown

(* The time of the validator's last slash.                                 *)
C20_SlashedAt(v) == EventsOf(v)[Len(EventsOf(v))].timestamp

(* The reasons the validator's counters give.                              *)
C20_CounterReasons(v) ==
    {r \in {"validator_offline"} : validator_history[v].offline_count >= offline_threshold}
    \cup {r \in {"invalid_block"} : validator_history[v].invalid_blocks > 0}

(* What the two queries are said to answer at a clock reading, for a       *)
(* validator last slashed at t.                                            *)
C20_Eligible(t, clock) == clock >= t + slash_cooldown
C20_Reasons(v, t, clock) == IF clock < t + slash_cooldown THEN {} ELSE C20_CounterReasons(v)

(* C20: for a validator last slashed at time t, while the clock is in      *)
(* [t, t + slash_cooldown) is_validator_eligible returns false and         *)
(* check_slashing_conditions returns no reasons whatever the counters;     *)
(* from t + slash_cooldown on is_validator_eligible returns true and       *)
(* check_slashing_conditions returns the reasons the counters give.  The   *)
(* answers are those of the calls made, and of the two functions at the    *)
(* last clock reading inside the window and the first one after it.        *)
C20_CooldownGatesQueries ==
    \A v \in Validators :
        EventsOf(v) # <<>> =>
            LET t == C20_SlashedAt(v)
            IN /\ now >= t
               /\ (ret.op = "is_validator_eligible" /\ ret.validator = v)
                      => ret.result = C20_Eligible(t, now)
               /\ (ret.op = "check_slashing_conditions" /\ ret.validator = v)
                      => ret.result = C20_Reasons(v, t, now)
               /\ \A clock \in {t + slash_cooldown - 1, t + slash_cooldown} :
                      clock >= now =>
                          /\ is_validator_eligible(v, clock) = C20_Eligible(t, clock)
                          /\ check_slashing_conditions(v, clock) = C20_Reasons(v, t, clock)

(* check_slashing_conditions has just returned no reasons for a validator  *)
(* with an invalid block on record, half way through its cooldown window.  *)
C20_Witness ==
    /\ ret.op = "check_slashing_conditions"
    /\ ret.result = {}
    /\ EventsOf(ret.validator) # <<>>
    /\ validator_history[ret.validator].invalid_blocks > 0
    /\ now > C20_SlashedAt(ret.validator)
    /\ now < C20_SlashedAt(ret.validator) + slash_cooldown

-----------------------------------------------------------------------------
(* The behavior counters of one validator: record_validator_behavior,      *)
(* clear_behavior_history and check_slashing_conditions on the observed    *)
(* validator, which is also slashed once in a while.                       *)

MaxRecorded == 4

InitBehavior == InitSlashing

NextBehavior ==
    \/ \E v \in Observed, b \in Behaviors :
           CanRecord(v, MaxRecorded) /\ RecordValidatorBehavior(v, b)
    \/ \E v \in Observed : ClearBehaviorHistory(v)
    \/ \E v \in Validators : CheckSlashingConditions(v)
    \/ \E v \in Observed : SlashValidator(v, "double_signing", <<>>, 0)
    \/ SlashingTickAction

SpecBehavior == InitBehavior /\ [][NextBehavior]_vars

(* The number of "offline" entries of a log after its last "valid_block".  *)
RECURSIVE C21_OfflineRun(_)
C21_OfflineRun(log) ==
    IF log = <<>> \/ log[Len(log)] = "valid_block" THEN 0
    ELSE (IF log[Len(log)] = "offline" THEN 1 ELSE 0)
         + C21_OfflineRun(SubSeq(log, 1, Len(log) - 1))

(* The behaviors recorded for v since the last clear_behavior_history.     *)
C21_Log(v) ==
    IF v \in DOMAIN validator_history THEN validator_history[v].behavior_history ELSE <<>>

C21_OutsideCooldown(v) ==
    v \in DOMAIN validator_history =>
        now - validator_history[v].last_slash_time >= slash_cooldown

C22_Inv ==
    /\ \A t \in DOMAIN consensus_mechanisms : consensus_mechanisms[t].type = t
    /\ \A t, u \in DOMAIN consensus_mechanisms :
           consensus_mechanisms[t].id = consensus_mechanisms[u].id => t = u
    /\ objects_created = Cardinality(DOMAIN consensus_mechanisms)
    /\ current_consensus.type \in DOMAIN consensus_mechanisms
    /\ current_consensus = consensus_mechanisms[current_consensus.type]

C22_Switched == ret'.op = "switch_consensus" /\ ~ret'.raised

C22_Act ==
    /\ C22_Switched =>
           /\ current_consensus' = consensus_mechanisms'[ret'.consensus_type]
           /\ \A t \in DOMAIN consensus_mechanisms :
                  consensus_mechanisms'[t] = consensus_mechanisms[t]
           /\ ret'.consensus_type \in DOMAIN consensus_mechanisms =>
                  /\ consensus_mechanisms' = consensus_mechanisms
                  /\ objects_created' = objects_created
    /\ ~C22_Switched =>
           /\ current_consensus' = current_consensus
           /\ consensus_mechanisms' = consensus_mechanisms
    /\ ret'.op = "validate_block" =>
           ret'.result = StrategyValidates(current_consensus, ret'.block, ret'.previous_block)
    /\ ret'.op = "mine_block" =>
           ret'.result = StrategyMines(current_consensus, ret'.previous_block)
    /\ ret'.op = "calculate_reward" => ret'.result = StrategyReward(current_consensus)
    /\ ret'.op = "is_consensus_achieved" =>
           ret'.result = StrategyConsensusAchieved(current_consensus, ret'.chain, ret'.peers)
    /\ (ret'.op = "select_validator" /\ ~ret'.raised) =>
           ret'.result = StrategySelects(current_consensus, ret'.candidates, ret'.block)

(* C22: the manager holds one strategy instance per type tag; the current  *)
(* strategy is the cached instance of the type last switched to with       *)
(* success; switching to a type used before restores the same instance and *)
(* creates none; validate_block, mine_block, calculate_reward,             *)
(* is_consensus_achieved and select_validator return what the current      *)
(* strategy returns.                                                       *)
C22_OneInstancePerTypeAndDelegation == []C22_Inv /\ [][C22_Act]_vars

(* After three types have been used, a switch has just restored an         *)
(* instance created before the newest one.                                 *)
C22_Witness ==
    /\ ret.op = "switch_consensus"
    /\ ~ret.raised
    /\ Cardinality(DOMAIN consensus_mechanisms) >= 3
    /\ current_consensus.id < objects_created
    /\ current_consensus = consensus_mechanisms[ret.consensus_type]

C23_Act ==
    (ret'.op = "switch_consensus" /\ ret'.consensus_type \notin {"pow", "pos", "dpos", "pbft"}) =>
        /\ ret'.raised
        /\ CreateRaises(ret'.consensus_type)
        /\ current_consensus' = current_consensus
        /\ consensus_mechanisms' = consensus_mechanisms

(* C23: switch_consensus with a type tag other than pow, pos, dpos, pbft   *)
(* raises (as ConsensusFactory.create does), and the current strategy and  *)
(* the cache of instances are then what they were before the call: no      *)
(* entry for the unknown tag, no default strategy.                         *)
C23_UnknownTagRaisesAndChangesNothing ==
    [](DOMAIN consensus_mechanisms \subseteq {"pow", "pos", "dpos", "pbft"}) /\ [][C23_Act]_vars

(* A switch to an unknown tag has just been refused by a manager that had  *)
(* switched away from its initial strategy.                                *)
C23_Witness ==
    /\ ret.op = "switch_consensus"
    /\ ret.raised
    /\ ret.consensus_type \notin DOMAIN consensus_mechanisms
    /\ current_consensus.id > 1

-----------------------------------------------------------------------------
(* ForkHandler with any resolution_strategy argument: the constructor      *)
(* stores the string it is given.                                          *)

StrategyInputs == RESOLUTION_STRATEGIES \cup {"heaviest_chain"}

InitForkAnyStrategy ==
    /\ now = 0
    /\ StakingInit
    /\ SlashingInit
    /\ DifficultyInit(DefaultTargetBlockTime, DefaultAdjustmentInterval,
                      DefaultMinDifficulty, DefaultMaxDifficulty, DefaultChangeLimit)
    /\ ConsensusInit("pow", DefaultKwargs)
    /\ \E strategy \in StrategyInputs : ForkInit(GenesisChain(3), 2, strategy)
    /\ threads = <<>>
    /\ ret = [op |-> "init"]

NextForkAnyStrategy ==
    \/ \E peer \in PeerChains : ResolveFork(peer)
    \/ \E strategy \in StrategyInputs : SetResolutionStrategy(strategy)

SpecForkAnyStrategy == InitForkAnyStrategy /\ [][NextForkAnyStrategy]_vars

(* C24: a resolution strategy other than longest_chain,                    *)
(* cumulative_difficulty and latest_timestamp is never installed, neither  *)
(* by the constructor nor by set_resolution_strategy (which raises), and a *)
(* resolve_fork call on a handler with such a strategy raises for every    *)
(* peer chain.                                                             *)
C24_UnknownStrategyIsAnError ==
    /\ (ret.op = "set_resolution_strategy" /\ ret.strategy \notin RESOLUTION_STRATEGIES)
           => ret.raised
    /\ (ret.op = "resolve_fork" /\ resolution_strategy \notin RESOLUTION_STRATEGIES)
           => ret.raised
    /\ resolution_strategy \in RESOLUTION_STRATEGIES

(* The position in a list of n candidates that block index i selects:      *)
(* the remainder of i by n, counted from 0.                                *)
C25_Position(i, n) == CHOOSE k \in 0..(n - 1) : \E q \in 0..i : i = q * n + k

(* The candidates PBFT selects for the n block indices from start on.      *)
C25_Round(candidates, start) ==
    [j \in 1..Len(candidates) |->
        StrategySelects(current_consensus, candidates,
                        [PreviousBlock EXCEPT !.index = start + j - 1])]

(* C25: PBFT select_validator returns candidates[block.index mod           *)
(* len(candidates)] for every non-empty candidate list, so over            *)
(* len(candidates) consecutive block indices every candidate is selected   *)
(* exactly once, in list order.                                            *)
C25_PbftRoundRobin ==
    current_consensus.type = "pbft" =>
        /\ (ret.op = "select_validator" /\ ret.candidates # <<>>) =>
               /\ ~ret.raised
               /\ ret.result =
                      ret.candidates[C25_Position(ret.block.index, Len(ret.candidates)) + 1]
        /\ \A candidates \in CandidateLists \ {<<>>} :
               \A start \in 0..(MaxSelectIndex - Len(candidates) + 1) :
                   LET round == C25_Round(candidates, start)
                       n == Len(candidates)
                   IN /\ \A c \in 1..n : Cardinality({j \in 1..n : round[j] = candidates[c]}) = 1
                      /\ \A j \in 1..(n - 1) :
                             \E c \in 1..n : /\ round[j] = candidates[c]
                                             /\ round[j + 1] = candidates[(c % n) + 1]

(* PBFT has just selected the last of three candidates for block index 5,  *)
(* past the end of the list.                                               *)
C25_Witness ==
    /\ current_consensus.type = "pbft"
    /\ ret.op = "select_validator"
    /\ Len(ret.candidates) = 3
    /\ ret.block.index = 5
    /\ ret.result = ret.candidates[3]

(* C26: PBFT is_consensus_achieved returns true exactly when the collected *)
(* agreements number at least 2f + 1; the collection is always empty, so   *)
(* for every f >= 0 and every peer list it returns false.                  *)
C26_PbftNeverAchieved ==
    (ret.op = "is_consensus_achieved" /\ current_consensus.type = "pbft"
        /\ current_consensus.f >= 0) =>
        /\ ret.result = (Len(CollectAgreements(ret.chain, ret.peers)) >= 2 * current_consensus.f + 1)
        /\ CollectAgreements(ret.chain, ret.peers) = <<>>
        /\ ~ret.result

(* PBFT with f = 0 has just reported no consensus with three peers.        *)
C26_Witness ==
    /\ ret.op = "is_consensus_achieved"
    /\ current_consensus.type = "pbft"
    /\ current_consensus.f = 0
    /\ Len(ret.peers) = 3
    /\ ~ret.result

-----------------------------------------------------------------------------
(* A PBFT node with a SlashingMechanism: validators are slashed, time      *)
(* passes, and the coordinator selects validators from the candidates.     *)

SlashedCandidates == {<<"v1", "v2">>, <<"v2">>}

InitSelection ==
    /\ now = ClockStart
    /\ StakingInit
    /\ SlashingInit
    /\ DifficultyInit(DefaultTargetBlockTime, DefaultAdjustmentInterval,
                      DefaultMinDifficulty, DefaultMaxDifficulty, DefaultChangeLimit)
    /\ \E kw \in {k \in KwargsInputs : k.difficulty = 3} : ConsensusInit("pbft", kw)
    /\ ForkInit(GenesisChain(1), 2, "longest_chain")
    /\ threads = <<>>
    /\ ret = [op |-> "init"]

NextSelection ==
    \/ \E v \in Validators : SlashValidator(v, "double_signing", <<>>, 0)
    \/ \E v \in Validators : IsValidatorEligible(v)
    \/ \E candidates \in SlashedCandidates, b \in SelectBlocks : SelectValidator(candidates, b)
    \/ SlashingTickAction

SpecSelection == InitSelection /\ [][NextSelection]_vars

(* C27: a validator for which is_validator_eligible is false (inside its   *)
(* slash cooldown) is never returned by select_validator of a stake- or    *)
(* authority-based strategy, PBFT's round-robin selection included.        *)
C27_SelectedValidatorIsEligible ==
    (ret.op = "select_validator" /\ ~ret.raised
        /\ current_consensus.type \in {"pos", "dpos", "pbft"})
    => is_validator_eligible(ret.result, now)

C28_Act ==
    (/\ ret'.op = "stake"
     /\ ret'.validator = ret'.staker
     /\ ret'.amount >= 1
     /\ ret'.amount < min_stake)
    => LET v == ret'.validator
       IN IF v \in DOMAIN validator_stakes /\ validator_stakes[v] > 0
          THEN /\ ret'.result
               /\ validator_stakes'[v] = validator_stakes[v] + ret'.amount
               /\ total_stake' = total_stake + ret'.amount
          ELSE /\ ~ret'.result
               /\ validator_stakes' = validator_stakes
               /\ total_stake' = total_stake

(* C28: min_stake is enforced only on a validator's first self-stake: a    *)
(* self-stake of 1 <= amount < min_stake is rejected when the validator    *)
(* has no self-stake yet, and accepted, adding the amount to the           *)
(* self-stake and to total_stake, when the validator holds a self-stake.   *)
C28_MinStakeOnFirstSelfStakeOnly == [][C28_Act]_vars

C29_Act ==
    ret'.op = "distribute_rewards" =>
        /\ validator_stakes' = validator_stakes
        /\ delegator_stakes' = delegator_stakes
        /\ total_stake' = total_stake
        /\ unstaking_queue' = unstaking_queue
        /\ (reward_pool <= 0 \/ total_stake <= 0) =>
               /\ ~ret'.raised
               /\ ret'.result = <<>>
               /\ reward_pool' = reward_pool
               /\ reward_history' = reward_history

(* C29: distribute_rewards leaves the stake balances, total_stake and the  *)
(* unstaking queue unchanged in every case, and where reward_pool <= 0 or  *)
(* total_stake <= 0 it returns no distributions and leaves reward_pool and *)
(* reward_history unchanged as well.                                       *)
C29_NoOpWithoutPoolOrStake == [][C29_Act]_vars

(* The reasons the claim lists for a stake or unstake call to fail.        *)
C30_StakeFails(v, s, amount) == amount < 1 \/ (v = s /\ amount < min_stake)

C30_UnstakeFails(v, s, amount) ==
    \/ amount < 1
    \/ v \notin DOMAIN validator_stakes
    \/ IF v = s THEN amount > validator_stakes[v]
       ELSE s \notin DOMAIN delegator_stakes[v] \/ amount > delegator_stakes[v][s]

C30_Act ==
    (\/ /\ ret'.op = "stake"
        /\ C30_StakeFails(ret'.validator, ret'.staker, ret'.amount)
     \/ /\ ret'.op = "unstake"
        /\ C30_UnstakeFails(ret'.validator, ret'.staker, ret'.amount))
    => /\ ~ret'.result
       /\ validator_stakes' = validator_stakes
       /\ delegator_stakes' = delegator_stakes
       /\ total_stake' = total_stake
       /\ unstaking_queue' = unstaking_queue
       /\ staking_history' = staking_history

(* C30: a stake or unstake call that fails (amount < 1, self-stake below   *)
(* min_stake, unknown validator, unknown delegator, amount above the       *)
(* staker's staked balance) returns false and leaves validator stakes,     *)
(* delegator stakes, total_stake, the unstaking queue and the staking      *)
(* history as before; a rejected stake creates no validator or delegator   *)
(* entry.                                                                  *)
C30_FailedCallsChangeNothing == [][C30_Act]_vars

(* An unstake by someone who never delegated to the validator has just     *)
(* been refused, with requests already queued.                             *)
C30_Witness ==
    /\ ret.op = "unstake"
    /\ ~ret.result
    /\ ret.amount >= 1
    /\ ret.validator \in DOMAIN validator_stakes
    /\ ret.validator # ret.staker
    /\ ret.staker \notin DOMAIN delegator_stakes[ret.validator]
    /\ unstaking_queue # <<>>

-----------------------------------------------------------------------------
(* The last adjustment_interval blocks of a list, counted from its end.    *)
C31_Window(blocks) ==
    [i \in 1..adjustment_interval |-> blocks[Len(blocks) - adjustment_interval + i]]

(* The difficulty computed from the first and last timestamps of a window  *)
(* and the current difficulty alone.                                       *)
C31_FromWindow(first, last, current) ==
    DifficultyRound(DifficultyClamp(
        FloatDiv(FloatFromInt(current),
                 FloatDiv(FloatFromInt(last - first), FloatFromInt(ExpectedTime))),
        current))

(* C31: calculate_new_difficulty given fewer than adjustment_interval      *)
(* blocks returns the current difficulty unchanged; given at least that    *)
(* many, its outcome is determined by the first and last timestamps of the *)
(* last adjustment_interval blocks and by the current difficulty, whatever *)
(* the earlier blocks are.                                                 *)
C31_OnlyTheLastWindowCounts ==
    ret.op = "calculate_new_difficulty" =>
        IF Len(ret.blocks) < adjustment_interval
        THEN ~ret.raised /\ ret.result = ret.current_difficulty
        ELSE LET w == C31_Window(ret.blocks)
                 first == w[1].timestamp
                 last == w[adjustment_interval].timestamp
             IN /\ ret.raised <=> last = first
                /\ ~ret.raised =>
                       ret.result = C31_FromWindow(first, last, ret.current_difficulty)

(* A call with blocks before the window returned a changed difficulty.     *)
C31_Witness ==
    /\ ret.op = "calculate_new_difficulty"
    /\ ~ret.raised
    /\ Len(ret.blocks) > adjustment_interval
    /\ ret.result # ret.current_difficulty

(* validate_difficulty on its own: previous blocks at the heights of two   *)
(* adjustment periods, block and previous block of any of these            *)
(* difficulties.                                                           *)
MaxValidatedDifficulty == 5
ValidatedHeights == 0..(2 * adjustment_interval)

NextValidateDifficulty ==
    \/ \E i \in ValidatedHeights, pd \in 1..MaxValidatedDifficulty,
          bd \in 1..MaxValidatedDifficulty :
           ValidateDifficulty([index |-> i + 1, difficulty |-> bd],
                              [index |-> i, difficulty |-> pd])
    \/ \E i \in ValidatedHeights : ShouldAdjustDifficulty(i)

SpecValidateDifficulty == InitDifficulty /\ [][NextValidateDifficulty]_vars

(* C32: validate_difficulty returns a boolean for every pair of blocks.    *)
(* Off the adjustment heights it returns true exactly when the two         *)
(* difficulties are equal; an adjustment height comes exactly once in      *)
(* every adjustment_interval consecutive heights, and there the call       *)
(* returns as well (true exactly when block.difficulty is within 1 of the  *)
(* recomputed difficulty).                                                 *)
C32_ValidateDifficultyReturnsBoolean ==
    /\ \A h \in 0..adjustment_interval :
           Cardinality({i \in h..(h + adjustment_interval - 1) :
                            should_adjust_difficulty(i)}) = 1
    /\ ret.op = "validate_difficulty" =>
           /\ ~ret.raised
           /\ ret.result \in BOOLEAN
           /\ ~should_adjust_difficulty(ret.previous_block.index) =>
                  (ret.result <=> ret.block.difficulty = ret.previous_block.difficulty)

-----------------------------------------------------------------------------
(* SlashingMechanism.slash_validator called from several threads.  The     *)
(* class holds no lock, so a thread may be preempted between the cooldown  *)
(* test, the append of the event and the write of last_slash_time.         *)

Threads == {"t1", "t2"}
MaxSlashCalls == 3

(* A thread enters slash_validator with a recognized reason (line 135).    *)
SlashBegin(t, v, reason) ==
    /\ t \notin DOMAIN threads
    /\ reason \in SLASH_REASONS
    /\ Len(slashing_events) + Cardinality(DOMAIN threads) < MaxSlashCalls
    /\ threads' = DictSet(threads, t, [op |-> "slash_validator", pc |-> "check",
                                       validator |-> v, reason |-> reason, timestamp |-> 0])
    /\ ret' = [op |-> "call", thread |-> t]
    /\ UNCHANGED <<now, difficultyVars, consensusVars, stakingVars, slashingVars, forkVars>>

(* Lines 139-142: the cooldown test; it raises inside the window.          *)
SlashCheck(t) ==
    /\ t \in DOMAIN threads
    /\ threads[t].op = "slash_validator"
    /\ threads[t].pc = "check"
    /\ IF SlashRaises(threads[t].validator, threads[t].reason, now) = "none"
       THEN /\ threads' = [threads EXCEPT ![t].pc = "append"]
            /\ ret' = [op |-> "step", thread |-> t]
       ELSE /\ threads' = DictDel(threads, t)
            /\ ret' = [op |-> "slash_validator", validator |-> threads[t].validator,
                       reason |-> threads[t].reason, raised |-> "Exception", thread |-> t]
    /\ UNCHANGED <<now, difficultyVars, consensusVars, stakingVars, slashingVars, forkVars>>

(* Lines 145-160: the event is built with a new reading of the clock and   *)
(* appended to slashing_events.                                            *)
SlashAppend(t) ==
    /\ t \in DOMAIN threads
    /\ threads[t].op = "slash_validator"
    /\ threads[t].pc = "append"
    /\ slashing_events' =
           Append(slashing_events,
                  [validator_address |-> threads[t].validator, reason |-> threads[t].reason,
                   amount |-> SlashAmount(threads[t].reason, <<>>), timestamp |-> now])
    /\ threads' = [threads EXCEPT ![t].pc = "update", ![t].timestamp = now]
    /\ ret' = [op |-> "step", thread |-> t]
    /\ UNCHANGED <<now, difficultyVars, consensusVars, stakingVars, forkVars,
                   validator_history, slash_cooldown, offline_threshold, slash_amounts>>

(* Lines 163-174: the validator's record is created if missing, its        *)
(* last_slash_time set to the event's timestamp, and the event returned.   *)
SlashUpdate(t) ==
    /\ t \in DOMAIN threads
    /\ threads[t].op = "slash_validator"
    /\ threads[t].pc = "update"
    /\ LET v == threads[t].validator
           h0 == IF v \in DOMAIN validator_history THEN validator_history[v] ELSE NewHistory
       IN validator_history' =
              DictSet(validator_history, v, [h0 EXCEPT !.last_slash_time = threads[t].timestamp])
    /\ threads' = DictDel(threads, t)
    /\ ret' = [op |-> "slash_validator", validator |-> threads[t].validator,
               reason |-> threads[t].reason, raised |-> "none", thread |-> t]
    /\ UNCHANGED <<now, difficultyVars, consensusVars, stakingVars, forkVars,
                   slashing_events, slash_cooldown, offline_threshold, slash_amounts>>

(* The clock advancing while calls are in progress.                        *)
ConcurrentTick ==
    /\ now < ClockStart + MaxSlashTicks * SlashingTick
    /\ now' = now + SlashingTick
    /\ ret' = [op |-> "tick"]
    /\ UNCHANGED <<threads, difficultyVars, consensusVars, stakingVars, slashingVars, forkVars>>

InitConcurrentSlash == InitSlashing

NextConcurrentSlash ==
    \/ \E t \in Threads, v \in Validators : SlashBegin(t, v, "double_signing")
    \/ \E t \in Threads : SlashCheck(t)
    \/ \E t \in Threads : SlashAppend(t)
    \/ \E t \in Threads : SlashUpdate(t)
    \/ ConcurrentTick

SpecConcurrentSlash == InitConcurrentSlash /\ [][NextConcurrentSlash]_vars

(* C33: with slash_validator calls of several threads interleaved, two     *)
(* SlashEvents of one validator are still at least slash_cooldown apart:   *)
(* of two concurrent calls for the same validator at most one records an   *)
(* event.                                                                  *)
C33_OneEventPerWindowUnderConcurrency ==
    \A i, j \in 1..Len(slashing_events) :
        (i < j /\ slashing_events[i].validator_address = slashing_events[j].validator_address)
        => slashing_events[j].timestamp - slashing_events[i].timestamp >= slash_cooldown

-----------------------------------------------------------------------------
(* ForkHandler.resolve_fork running next to a reader of the blockchain.    *)
(* Neither class holds a lock: _resolve_by_length assigns the chain (line  *)
(* 121) and _update_block_hash_map then empties the index (line 199) and   *)
(* fills it block by block (lines 200-201); a reader may run between any   *)
(* two of these writes.                                                    *)

(* Lines 95-122: detect_fork and the comparison and validation of the      *)
(* strategy; the call returns False here unless the chain is to be         *)
(* swapped.                                                                *)
ResolveBegin(t, peer) ==
    /\ t \notin DOMAIN threads
    /\ Len(forks) < MaxForks
    /\ ~ResolveRaises(peer)
    /\ forks' = ForksAfterDetect(peer)
    /\ IF ResolveSwaps(peer)
       THEN /\ threads' = DictSet(threads, t, [op |-> "resolve_fork", pc |-> "swap",
                                              peer |-> peer, i |-> 1])
            /\ ret' = [op |-> "call", thread |-> t]
       ELSE /\ threads' = threads
            /\ ret' = [op |-> "resolve_fork", peer |-> peer, raised |-> FALSE,
                       result |-> FALSE]
    /\ UNCHANGED <<now, difficultyVars, consensusVars, stakingVars, slashingVars, chain,
                   block_hash_map, fork_threshold, resolution_strategy>>

(* Line 121: self.blockchain.chain = peer_chain                            *)
ResolveSwap(t) ==
    /\ t \in DOMAIN threads
    /\ threads[t].op = "resolve_fork"
    /\ threads[t].pc = "swap"
    /\ chain' = threads[t].peer
    /\ threads' = [threads EXCEPT ![t].pc = "clear"]
    /\ ret' = [op |-> "step", thread |-> t]
    /\ UNCHANGED <<now, difficultyVars, consensusVars, stakingVars, slashingVars,
                   block_hash_map, forks, fork_threshold, resolution_strategy>>

(* Line 199: self.blockchain._block_hash_map = {}                          *)
ResolveClear(t) ==
    /\ t \in DOMAIN threads
    /\ threads[t].op = "resolve_fork"
    /\ threads[t].pc = "clear"
    /\ block_hash_map' = EmptyDict
    /\ threads' = [threads EXCEPT ![t].pc = "fill"]
    /\ ret' = [op |-> "step", thread |-> t]
    /\ UNCHANGED <<now, difficultyVars, consensusVars, stakingVars, slashingVars, chain,
                   forks, fork_threshold, resolution_strategy>>

(* Lines 200-201: one iteration of the loop over the chain; after the last *)
(* one resolve_fork returns True.                                          *)
ResolveFill(t) ==
    /\ t \in DOMAIN threads
    /\ threads[t].op = "resolve_fork"
    /\ threads[t].pc = "fill"
    /\ LET i == threads[t].i
       IN /\ block_hash_map' = DictSet(block_hash_map, chain[i].hash, chain[i])
          /\ IF i < Len(chain)
             THEN /\ threads' = [threads EXCEPT ![t].i = i + 1]
                  /\ ret' = [op |-> "step", thread |-> t]
             ELSE /\ threads' = DictDel(threads, t)
                  /\ ret' = [op |-> "resolve_fork", peer |-> threads[t].peer,
                             raised |-> FALSE, result |-> TRUE]
    /\ UNCHANGED <<now, difficultyVars, consensusVars, stakingVars, slashingVars, chain,
                   forks, fork_threshold, resolution_strategy>>

(* A reader takes the chain and the hash index as they are at one instant. *)
ReadChain ==
    /\ ret' = [op |-> "read", chain |-> chain, block_hash_map |-> block_hash_map,
               resolving |-> threads # <<>>]
    /\ UNCHANGED <<now, threads, difficultyVars, consensusVars, stakingVars, slashingVars,
                   forkVars>>

InitConcurrentFork ==
    /\ now = 0
    /\ StakingInit
    /\ SlashingInit
    /\ DifficultyInit(DefaultTargetBlockTime, DefaultAdjustmentInterval,
                      DefaultMinDifficulty, DefaultMaxDifficulty, DefaultChangeLimit)
    /\ ConsensusInit("pow", DefaultKwargs)
    /\ ForkInit(GenesisChain(2), 2, "longest_chain")
    /\ threads = <<>>
    /\ ret = [op |-> "init"]

NextConcurrentFork ==
    \/ \E peer \in PeerChains : ResolveBegin("t1", peer)
    \/ ResolveSwap("t1")
    \/ ResolveClear("t1")
    \/ ResolveFill("t1")
    \/ ReadChain

SpecConcurrentFork == InitConcurrentFork /\ [][NextConcurrentFork]_vars

(* C34: what a reader running next to resolve_fork observes is a chain     *)
(* together with the hash index of that chain: the old chain with the old  *)
(* index or the new chain with the new index, never the new chain with an  *)
(* empty, partly rebuilt or old index.                                     *)
C34_ReaderSeesChainWithItsIndex ==
    ret.op = "read" =>
        /\ DOMAIN ret.block_hash_map = {ret.chain[i].hash : i \in 1..Len(ret.chain)}
        /\ \A h \in DOMAIN ret.block_hash_map :
               \E i \in 1..Len(ret.chain) : ret.chain[i] = ret.block_hash_map[h]

-----------------------------------------------------------------------------
(* The configuration setters of SlashingMechanism, ForkHandler and         *)
(* DifficultyAdjuster.  Each tests its argument, raises ValueError on a    *)
(* bad one and otherwise stores it.                                        *)

(* SlashingMechanism.set_slash_amount (amounts in hundredths)              *)
SetSlashAmount(reason, amount) ==
    LET raised == reason \notin SLASH_REASONS \/ amount < 0 \/ amount > 100
    IN /\ slash_amounts' = IF raised THEN slash_amounts
                           ELSE [slash_amounts EXCEPT ![reason] = amount]
       /\ ret' = [op |-> "set_slash_amount", reason |-> reason, amount |-> amount,
                  raised |-> raised]
       /\ UNCHANGED <<now, threads, difficultyVars, consensusVars, stakingVars, forkVars,
                      validator_history, slashing_events, slash_cooldown, offline_threshold>>

(* SlashingMechanism.set_offline_threshold                                 *)
SetOfflineThreshold(threshold) ==
    /\ offline_threshold' = IF threshold < 1 THEN offline_threshold ELSE threshold
    /\ ret' = [op |-> "set_offline_threshold", threshold |-> threshold,
               raised |-> threshold < 1]
    /\ UNCHANGED <<now, threads, difficultyVars, consensusVars, stakingVars, forkVars,
                   validator_history, slashing_events, slash_cooldown, slash_amounts>>

(* SlashingMechanism.set_slash_cooldown                                    *)
SetSlashCooldown(cooldown) ==
    /\ slash_cooldown' = IF cooldown < 0 THEN slash_cooldown ELSE cooldown
    /\ ret' = [op |-> "set_slash_cooldown", cooldown |-> cooldown, raised |-> cooldown < 0]
    /\ UNCHANGED <<now, threads, difficultyVars, consensusVars, stakingVars, forkVars,
                   validator_history, slashing_events, offline_threshold, slash_amounts>>

(* ForkHandler.set_fork_threshold                                          *)
SetForkThreshold(threshold) ==
    /\ fork_threshold' = IF threshold < 1 THEN fork_threshold ELSE threshold
    /\ ret' = [op |-> "set_fork_threshold", threshold |-> threshold,
               raised |-> threshold < 1]
    /\ UNCHANGED <<now, threads, difficultyVars, consensusVars, stakingVars, slashingVars,
                   chain, block_hash_map, forks, resolution_strategy>>

SetDifficultyLimits_MinOnly(min_diff, max_diff) ==
    LET raised == min_diff < 1
    IN /\ min_difficulty' = IF raised THEN min_difficulty ELSE min_diff
       /\ max_difficulty' = IF raised THEN max_difficulty ELSE max_diff
       /\ ret' = [op |-> "set_difficulty_limits", min_diff |-> min_diff,
                  max_diff |-> max_diff, raised |-> raised]
       /\ UNCHANGED <<now, threads, consensusVars, stakingVars, slashingVars, forkVars,
                      target_block_time, adjustment_interval, difficulty_change_limit>>

(* DifficultyAdjuster.set_difficulty_limits                                *)
SetDifficultyLimits(min_diff, max_diff) ==
    LET raised == min_diff < 1 \/ max_diff < min_diff
    IN /\ min_difficulty' = IF raised THEN min_difficulty ELSE min_diff
       /\ max_difficulty' = IF raised THEN max_difficulty ELSE max_diff
       /\ ret' = [op |-> "set_difficulty_limits", min_diff |-> min_diff,
                  max_diff |-> max_diff, raised |-> raised]
       /\ UNCHANGED <<now, threads, consensusVars, stakingVars, slashingVars, forkVars,
                      target_block_time, adjustment_interval, difficulty_change_limit>>

(* DifficultyAdjuster.set_difficulty_change_limit (limit is a float)       *)
SetDifficultyChangeLimit(limit) ==
    LET raised == FloatCmp(limit, FloatFromInt(0)) < 0 \/ FloatCmp(limit, FloatFromInt(1)) > 0
    IN /\ difficulty_change_limit' = IF raised THEN difficulty_change_limit ELSE limit
       /\ ret' = [op |-> "set_difficulty_change_limit", limit |-> limit, raised |-> raised]
       /\ UNCHANGED <<now, threads, consensusVars, stakingVars, slashingVars, forkVars,
                      target_block_time, adjustment_interval, min_difficulty, max_difficulty>>

(* DifficultyAdjuster.set_target_block_time                                *)
SetTargetBlockTime(target) ==
    /\ target_block_time' = IF target <= 0 THEN target_block_time ELSE target
    /\ ret' = [op |-> "set_target_block_time", target |-> target, raised |-> target <= 0]
    /\ UNCHANGED <<now, threads, consensusVars, stakingVars, slashingVars, forkVars,
                   adjustment_interval, min_difficulty, max_difficulty,
                   difficulty_change_limit>>

(* DifficultyAdjuster.set_adjustment_interval                              *)
SetAdjustmentInterval(interval) ==
    /\ adjustment_interval' = IF interval <= 0 THEN adjustment_interval ELSE interval
    /\ ret' = [op |-> "set_adjustment_interval", interval |-> interval,
               raised |-> interval <= 0]
    /\ UNCHANGED <<now, threads, consensusVars, stakingVars, slashingVars, forkVars,
                   target_block_time, min_difficulty, max_difficulty,
                   difficulty_change_limit>>

(* The arguments the setters are called with: for each, values on both     *)
(* sides of its test and on its edge.  Change limits are -0.1, 0.0, 1.0    *)
(* and 1.5.                                                                *)
CountInputs == {-1, 0, 1}
CooldownInputs == {-1, 0}
AmountInputs == {-1, 0, 100, 101}
LimitInputs == {<<0, 5>>, <<2, 1>>, <<1, 1>>, <<2, 30>>}
ChangeLimitInputs ==
    {FloatNeg(FloatLiteral(1, 10)), FloatFromInt(0), FloatFromInt(1), FloatLiteral(3, 2)}

InitConfig == InitSlashing

NextConfig ==
    \/ \E reason \in SlashReasonInputs, amount \in AmountInputs : SetSlashAmount(reason, amount)
    \/ \E threshold \in CountInputs : SetOfflineThreshold(threshold)
    \/ \E cooldown \in CooldownInputs : SetSlashCooldown(cooldown)
    \/ \E threshold \in CountInputs : SetForkThreshold(threshold)
    \/ \E l \in LimitInputs : SetDifficultyLimits(l[1], l[2])
    \/ \E limit \in ChangeLimitInputs : SetDifficultyChangeLimit(limit)
    \/ \E target \in CountInputs : SetTargetBlockTime(target)
    \/ \E interval \in CountInputs : SetAdjustmentInterval(interval)

SpecConfig == InitConfig /\ [][NextConfig]_vars

(* The configuration as a whole.                                           *)
C35_Config ==
    <<slash_amounts, offline_threshold, slash_cooldown, fork_threshold, min_difficulty,
      max_difficulty, difficulty_change_limit, target_block_time, adjustment_interval>>

(* The argument of the call just made is one the claim calls invalid.      *)
C35_InvalidCall(r) ==
    CASE r.op = "set_offline_threshold" -> r.threshold < 1
      [] r.op = "set_slash_cooldown" -> r.cooldown < 0
      [] r.op = "set_slash_amount" ->
             r.reason \notin SLASH_REASONS \/ r.amount < 0 \/ r.amount > 100
      [] r.op = "set_fork_threshold" -> r.threshold < 1
      [] r.op = "set_difficulty_limits" -> r.min_diff < 1 \/ r.max_diff < r.min_diff
      [] r.op = "set_difficulty_change_limit" ->
             FloatCmp(r.limit, FloatZero(1)) < 0 \/ FloatCmp(r.limit, FloatLiteral(1, 1)) > 0
      [] r.op = "set_target_block_time" -> r.target <= 0
      [] r.op = "set_adjustment_interval" -> r.interval <= 0
      [] OTHER -> FALSE

C35_Act == C35_InvalidCall(ret') => ret'.raised /\ C35_Config' = C35_Config

C35_Inv ==
    /\ offline_threshold >= 1
    /\ slash_cooldown >= 0
    /\ \A r \in SLASH_REASONS : 0 <= slash_amounts[r] /\ slash_amounts[r] <= 100
    /\ fork_threshold >= 1
    /\ 1 <= min_difficulty /\ min_difficulty <= max_difficulty
    /\ FloatCmp(difficulty_change_limit, FloatZero(1)) >= 0
    /\ FloatCmp(difficulty_change_limit, FloatLiteral(1, 1)) <= 0
    /\ target_block_time > 0
    /\ adjustment_interval > 0

(* C35: every configuration setter given an invalid threshold or limit     *)
(* raises and leaves the configuration unchanged; so from the default      *)
(* configuration on, offline_threshold >= 1, slash_cooldown >= 0, every    *)
(* slash amount is in [0, 1], fork_threshold >= 1, 1 <= min_difficulty <=  *)
(* max_difficulty, the change limit is in [0, 1], and target_block_time    *)
(* and adjustment_interval are positive.                                   *)
C35_InvalidSettingsAreRefused == []C35_Inv /\ [][C35_Act]_vars

(* set_difficulty_limits has just refused max < min after the limits had   *)
(* been changed.                                                           *)
C35_Witness ==
    /\ ret.op = "set_difficulty_limits"
    /\ ret.raised
    /\ ret.min_diff >= 1
    /\ max_difficulty # DefaultMaxDifficulty
    /\ offline_threshold # DefaultOfflineThreshold

C36_Act ==
    (ret'.op = "resolve_fork" /\ (ret'.raised \/ ~ret'.result)) =>
        /\ chain' = chain
        /\ block_hash_map' = block_hash_map
        /\ forks' = forks

(* C36: whenever resolve_fork reports failure (no fork detected, peer      *)
(* chain not strictly stronger, or invalid) or raises (unknown strategy),  *)
(* the chain, the hash index and the ForkInfo log are exactly as before    *)
(* the call.                                                               *)
C36_FailedResolveChangesNothing == [][C36_Act]_vars

(* C37: total_stake equals the sum over all validators of the self-stake   *)
(* plus the delegator stakes (the sum of get_validator_stake), after every *)
(* stake, unstake, process_unstaking, add_rewards and distribute_rewards   *)
(* call; a stake under a pending unstake request counts on both sides.     *)
C37_TotalIsSumOfValidatorStakes ==
    /\ DOMAIN delegator_stakes = DOMAIN validator_stakes
    /\ total_stake =
           SumOver([v \in DOMAIN validator_stakes |-> get_validator_stake(v)],
                   DOMAIN validator_stakes)

(* process_unstaking has just released a matured request of a validator    *)
(* with a delegator while another request is still pending.                *)
C37_Witness ==
    /\ ret.op = "process_unstaking"
    /\ ret.processed # <<>>
    /\ \E i \in 1..Len(unstaking_queue) : ~unstaking_queue[i].completed
    /\ \E v \in DOMAIN validator_stakes :
           validator_stakes[v] > 0 /\ delegator_stakes[v] # EmptyDict

(* The counters and the log of a validator's record, an unknown validator  *)
(* having none.                                                            *)
C38_Counters(history, v) ==
    IF v \in DOMAIN history
    THEN <<history[v].offline_count, history[v].invalid_blocks, history[v].valid_blocks,
           history[v].behavior_history>>
    ELSE <<0, 0, 0, <<>>>>

C38_Act ==
    (ret'.op = "slash_validator" /\ ret'.raised = "none") =>
        /\ Len(slashing_events') = Len(slashing_events) + 1
        /\ \A v \in Validators :
               C38_Counters(validator_history', v) = C38_Counters(validator_history, v)
        /\ \A v \in DOMAIN validator_history \ {ret'.validator} :
               validator_history'[v] = validator_history[v]
        /\ validator_history'[ret'.validator].last_slash_time = now'
        /\ <<slash_cooldown, offline_threshold, slash_amounts>>'
               = <<slash_cooldown, offline_threshold, slash_amounts>>

(* A slashed validator whose cooldown has elapsed is reported with the     *)
(* reasons its log gives, as if it had not been slashed.                   *)
C38_ReportedAgain ==
    (/\ ret.op = "check_slashing_conditions"
     /\ EventsOf(ret.validator) # <<>>
     /\ now >= C20_SlashedAt(ret.validator) + slash_cooldown) =>
        ret.result =
            {r \in {"validator_offline"} :
                 C21_OfflineRun(C21_Log(ret.validator)) >= offline_threshold}
            \cup {r \in {"invalid_block"} :
                      \E i \in 1..Len(C21_Log(ret.validator)) :
                          C21_Log(ret.validator)[i] = "invalid_block"}

(* C38: a successful slash_validator changes only the event list and the   *)
(* validator's last_slash_time; offline_count, invalid_blocks,             *)
(* valid_blocks and the behavior log stay as they were, so once the        *)
(* cooldown has elapsed check_slashing_conditions reports the validator    *)
(* with the same reasons again, until clear_behavior_history or a          *)
(* valid_block record resets the counters.                                 *)
C38_SlashKeepsCounters == []C38_ReportedAgain /\ [][C38_Act]_vars

(* A validator with one invalid block on record and nothing else has been  *)
(* slashed, and after the cooldown it is reported for the invalid block.   *)
C38_Witness ==
    /\ ret.op = "check_slashing_conditions"
    /\ ret.result = {"invalid_block"}
    /\ EventsOf(ret.validator) # <<>>
    /\ now >= C20_SlashedAt(ret.validator) + slash_cooldown
    /\ C21_Log(ret.validator) = <<"invalid_block">>

-----------------------------------------------------------------------------
(* The slashing mechanism constructed while the clock reads less than      *)
(* slash_cooldown (time.time() counts from 0) or, as elsewhere, more.      *)

StartClocks == {0, ClockStart}

InitEarlyClock ==
    /\ now \in StartClocks
    /\ StakingInit
    /\ SlashingInit
    /\ DifficultyInit(DefaultTargetBlockTime, DefaultAdjustmentInterval,
                      DefaultMinDifficulty, DefaultMaxDifficulty, DefaultChangeLimit)
    /\ ConsensusInit("pow", DefaultKwargs)
    /\ ForkInit(GenesisChain(1), 2, "longest_chain")
    /\ threads = <<>>
    /\ ret = [op |-> "init"]

NextEarlyClock ==
    \/ \E v \in Observed, b \in Behaviors :
           CanRecord(v, MaxBehaviors) /\ RecordValidatorBehavior(v, b)
    \/ \E v \in Validators : CheckSlashingConditions(v)
    \/ \E v \in Validators : IsValidatorEligible(v)
    \/ \E v \in Validators : SlashValidator(v, "invalid_block", <<>>, 0)
    \/ SlashingTickAction

SpecEarlyClock == InitEarlyClock /\ [][NextEarlyClock]_vars

(* What a call about a validator that has never been slashed must answer.  *)
C39_Act ==
    \A v \in Validators :
        (EventsOf(v) = <<>> /\ "validator" \in DOMAIN ret' /\ ret'.validator = v) =>
            /\ ret'.op = "is_validator_eligible" => ret'.result
            /\ ret'.op = "check_slashing_conditions" =>
                   ret'.result = IF v \in DOMAIN validator_history
                                 THEN C20_CounterReasons(v) ELSE {}
            /\ (ret'.op = "slash_validator" /\ ret'.reason \in SLASH_REASONS) =>
                   ret'.raised = "none"

(* C39: a validator for which no SlashEvent was ever recorded is never     *)
(* treated as in cooldown, at any clock value and with or without          *)
(* recorded behaviors: is_validator_eligible returns true,                 *)
(* check_slashing_conditions evaluates its counters, and its first         *)
(* slash_validator call with a recognized reason succeeds.                 *)
C39_NeverSlashedNeverInCooldown == [][C39_Act]_vars

(* C40: calculate_new_difficulty returns an integer for every window of at *)
(* least adjustment_interval blocks, windows of elapsed time 0 or of       *)
(* negative elapsed time included; and for a current difficulty within     *)
(* [min_difficulty, max_difficulty] a window faster than expected never    *)
(* lowers the difficulty and a slower one never raises it.                 *)
C40_AlwaysReturnsAndFollowsTheWindow ==
    (ret.op = "calculate_new_difficulty" /\ Len(ret.blocks) >= adjustment_interval) =>
        /\ ~ret.raised
        /\ ret.result \in Int
        /\ (min_difficulty <= ret.current_difficulty
            /\ ret.current_difficulty <= max_difficulty) =>
               /\ ActualTime(ret.blocks) < ExpectedTime => ret.result >= ret.current_difficulty
               /\ ActualTime(ret.blocks) > ExpectedTime => ret.result <= ret.current_difficulty

====
